---------------------------- MODULE Spec2Model ----------------------------
(***************************************************************************)
(* State-machine model of the scheduling, collection and alerting pipeline *)
(* of DbToolsApp (backend/app/services, backend/app/workers,               *)
(* backend/workers).                                                       *)
(*                                                                         *)
(* Several sub-systems share this module.  Each has its own specification  *)
(* and leaves the variables of the others unchanged:                       *)
(*   SpecAlert      AlertEvaluator + AlertService (alerts table)           *)
(*   SpecSched      JobService + SchedulerService + JobSchedulerWorker     *)
(*   SpecCollector  MetricCollector (thread pool, servers, snapshots)      *)
(*   SpecCycle      one _check_jobs cycle over several tenants             *)
(*   SpecChains     AnalyticsService.get_blocking_chains                   *)
(*   SpecCleanup    MetricsCleanup.cleanup_tenant                          *)
(*                                                                         *)
(* Time is counted in seconds.  A database NULL / Python None is None.     *)
(***************************************************************************)
EXTENDS Integers, Sequences, FiniteSets, TLC

VARIABLES
    \* ---- alerting (tenant store: alert_rules, alerts; evaluator memory)
    rule_enabled,     \* AlertRule.is_enabled, per rule id
    alerts,           \* the alerts table: sequence of Alert rows, index = id
    resolved_count,   \* AlertEvaluator._resolved_count, 0 = key absent
    streak,           \* observer: consecutive non-triggering evaluations seen
                      \* by the pair's current non-resolved Alert
    \* ---- scheduling (tenant store: jobs, job_executions; worker threads)
    now,              \* the clock, datetime.now(timezone.utc), in seconds
    jobs,             \* the jobs table: job id -> Job row, NoJob when absent
    executions,       \* the job_executions table: sequence of rows, index = id
    handlers,         \* JobExecutor.handlers: the job types with a handler
    next_fire,        \* next fire time of the 'job_checker' interval trigger,
                      \* None before JobSchedulerWorker.start()
    pc,               \* per checking thread: where it is in _check_jobs
    due,              \* per checking thread: the rest of its due_jobs list
    cur,              \* per checking thread: locals of _execute_job
    \* ---- metric collection (servers, snapshots, the collector's thread pool)
    health,           \* environment: how each SQL Server answers a collection
    srv_status,       \* Server.status
    last_collected_at,\* CollectionConfig.last_collected_at
    last_snapshot_at, \* collected_at of the server's newest ServerSnapshot row
    unit,             \* this cycle's collect_server unit of each server
    queue,            \* ThreadPoolExecutor work queue (submitted, not started)
    hung,             \* pool workers held by units that never return
    cpc,              \* main thread of the collector: where it is in run()
    ct,               \* collect_all: index of the tenant being processed
    futures,          \* collect_tenant: the futures not yet waited for
    timed_out,        \* servers whose wait raised a timeout in this cycle
    \* ---- one _check_jobs cycle over several tenants (JobSchedulerWorker)
    cyc_pc,           \* where _check_jobs is: idle, tenants (outer loop), jobs
    cyc_tenants,      \* _check_jobs: the tenants still to be processed
    cyc_due,          \* _process_tenant_jobs: the due jobs still to be executed
    cyc_handlers,     \* JobExecutor.handlers of the cycle's executor
    cyc_shutdown,     \* JobSchedulerWorker._shutdown_event
    cyc_rows,         \* the JobExecution row this cycle created for each job
    cyc_attempted,    \* observer: tenants _process_tenant_jobs was called for
    cyc_returned,     \* observer: jobs that get_due_jobs returned in the cycle
    cyc_executed,     \* observer: jobs _execute_job was called for
    cyc_ran,          \* observer: jobs whose handler was run
    cyc_fault,        \* observer: jobs whose result write met a store error
    \* ---- blocking chains (AnalyticsService over running_query_snapshots)
    rq_generation,    \* the rows of the server's latest snapshot generation
                      \* (a bag of rows, listed in one fixed order)
    bc_result,        \* what get_blocking_chains returned last for them
    rq_empty_poll,    \* observer: the server's latest poll fetched no request
    \* ---- retention cleanup (MetricsCleanup over the time-series tables)
    tables,           \* per table and collected_at day: the number of rows
    cl_running,       \* MetricsCleanup.running
    cl_pc,            \* where cleanup_tenant is: idle, loop (in a table), done
    cl_tbl,           \* index of the table _delete_in_batches works on
    cl_total,         \* per table: total_deleted of its _delete_in_batches
    cl_before,        \* observer: the tables as cleanup_tenant found them
    cl_fetches,       \* observer: id fetches made per table in this run
    cl_passes,        \* observer: delete statements committed per table
    cl_short,         \* observer: tables whose fetch fell short of a batch
    cl_errors,        \* observer: tables whose loop met an exception
    cl_stopped,       \* observer: shutdown() arrived during this run
    \* ---- tenant resolution (system store: tenants; the request middleware)
    tn_status,        \* Tenant.status per slug, "absent" without a row
    tn_req,           \* the last request: what it carried, how it ended
    \* ---- query collection (running_query_snapshots of one server)
    pq_now,           \* the clock, datetime.now(timezone.utc), in seconds
    pq_pc,            \* the collector: about to collect the server, or waiting
    pq_rows,          \* the server's running_query_snapshots rows, as inserted
    pq_last,          \* CollectionConfig.last_query_collected_at
    pq_polls,         \* observer: the polls made, what each fetched and wrote
    pq_result,        \* what get_blocking_chains returned since the last visit
    \* ---- worker life cycle (the scheduler worker process, job_executions)
    wk_proc,          \* the worker process: down, starting (in start()), running
    wk_pc,            \* where _execute_job is: idle, handler, result
    wk_rows,          \* JobExecution.status of the rows created, index = id
    wk_cur,           \* the row of the _execute_job in progress, 0 for none
    wk_outcome,       \* how executor.execute ended in that _execute_job
    \* ---- unit submission (servers and collection_configs of one tenant)
    sb_now,           \* the clock, datetime.now(timezone.utc), in seconds
    sb_rows,          \* per server: Server.is_deleted and its CollectionConfig
    sb_pc,            \* collect_tenant: idle, or wait (units are submitted)
    sb_running,       \* MetricCollector.running
    sb_submitted,     \* the servers the first loop submitted, in order
    sb_pending,       \* the submitted units that have not ended
    sb_broken,        \* observer: the query failed or the loop was left early
    \* ---- metric probes (one connected server's collection unit)
    pr_pc,            \* the unit: idle, or done
    pr_outcomes,      \* observer: how each probe of the last unit ended
    pr_close,         \* observer: how conn.close() ended in the last unit
    pr_commit_ok,     \* observer: the store took the last unit's commit
    pr_ran,           \* the probes the unit sent, in order
    pr_snapshot,      \* the ServerSnapshot the unit stored, or NoSnapshot
    pr_status,        \* Server.status
    \* ---- evaluation on stored snapshots (server_snapshots of one tenant)
    ev_latest,        \* per server: the metrics of its latest ServerSnapshot
    ev_has,           \* the servers that have a ServerSnapshot
    ev_failed,        \* observer: the server's last collection unit failed
    ev_seen,          \* observer: servers whose latest snapshot was evaluated
    ev_tick           \* observer: flips at every run_alert_evaluation

alertVars == <<rule_enabled, alerts, resolved_count, streak>>

schedVars == <<now, jobs, executions, handlers, next_fire, pc, due, cur>>

collVars == <<health, srv_status, last_collected_at, last_snapshot_at, unit,
              queue, hung, cpc, ct, futures, timed_out>>

cycleVars == <<cyc_pc, cyc_tenants, cyc_due, cyc_handlers, cyc_shutdown, cyc_rows,
               cyc_attempted, cyc_returned, cyc_executed, cyc_ran, cyc_fault>>

chainVars == <<rq_generation, bc_result, rq_empty_poll>>

cleanVars == <<tables, cl_running, cl_pc, cl_tbl, cl_total, cl_before,
               cl_fetches, cl_passes, cl_short, cl_errors, cl_stopped>>

tenantVars == <<tn_status, tn_req>>

\* the variables of the sub-systems added after the first six
pollVars == <<pq_now, pq_pc, pq_rows, pq_last, pq_polls, pq_result>>

workerVars == <<wk_proc, wk_pc, wk_rows, wk_cur, wk_outcome>>

submitVars == <<sb_now, sb_rows, sb_pc, sb_running, sb_submitted, sb_pending,
                sb_broken>>

probeVars == <<pr_pc, pr_outcomes, pr_close, pr_commit_ok, pr_ran, pr_snapshot,
               pr_status>>

snapVars == <<ev_latest, ev_has, ev_failed, ev_seen, ev_tick>>

laterVars == <<tenantVars, pollVars, workerVars, submitVars, probeVars, snapVars>>

\* the variables of the sub-systems that follow the first three
extVars == <<cycleVars, chainVars, cleanVars, laterVars>>

vars == <<rule_enabled, alerts, resolved_count, streak,
          now, jobs, executions, handlers, next_fire, pc, due, cur,
          health, srv_status, last_collected_at, last_snapshot_at, unit,
          queue, hung, cpc, ct, futures, timed_out,
          cyc_pc, cyc_tenants, cyc_due, cyc_handlers, cyc_shutdown, cyc_rows,
          cyc_attempted, cyc_returned, cyc_executed, cyc_ran, cyc_fault,
          rq_generation, bc_result, rq_empty_poll,
          tables, cl_running, cl_pc, cl_tbl, cl_total, cl_before,
          cl_fetches, cl_passes, cl_short, cl_errors, cl_stopped,
          tn_status, tn_req,
          pq_now, pq_pc, pq_rows, pq_last, pq_polls, pq_result,
          wk_proc, wk_pc, wk_rows, wk_cur, wk_outcome,
          sb_now, sb_rows, sb_pc, sb_running, sb_submitted, sb_pending, sb_broken,
          pr_pc, pr_outcomes, pr_close, pr_commit_ok, pr_ran, pr_snapshot, pr_status,
          ev_latest, ev_has, ev_failed, ev_seen, ev_tick>>

None == -1


(***************************************************************************)
(*                      SCHEDULING: data and functions                     *)
(***************************************************************************)

\* bounds of the scheduling model
MaxTime == 60
MaxExec == 2

\* JobSchedulerWorker.__init__(poll_interval_seconds=30)
PollInterval == 30
\* validate_job_input: interval_seconds must be at least 60
MinIntervalSeconds == 60
\* calculate_next_run: schedule_config.get('interval_seconds', 3600)
DefaultIntervalSeconds == 3600

JobIds == {1}
JobTypes == {"policy_execution"}
ScheduleTypes == {"once", "interval", "cron", "event_triggered"}
Threads == {"main", "periodic"}

NoJob == [id |-> 0]
NoCur == [job |-> 0, exec |-> 0, success |-> FALSE, result |-> "none", error |-> "none"]

\* schedule_config values offered to create_job / update_job: interval_seconds,
\* cron expression ("" = key absent) and run_at (None = key absent)
ScheduleInputs ==
    {[schedule_type |-> "once", interval_seconds |-> None, expression |-> "", run_at |-> 60],
     [schedule_type |-> "interval", interval_seconds |-> 60, expression |-> "", run_at |-> None],
     [schedule_type |-> "interval", interval_seconds |-> 90, expression |-> "", run_at |-> None],
     [schedule_type |-> "interval", interval_seconds |-> 30, expression |-> "", run_at |-> None],
     [schedule_type |-> "cron", interval_seconds |-> None, expression |-> "* * * * *", run_at |-> None],
     [schedule_type |-> "event_triggered", interval_seconds |-> None, expression |-> "", run_at |-> None]}

\* JobService.validate_job_input: TRUE when the list of errors is empty
validate_job_input(job_type, sc) ==
    /\ job_type \in JobTypes
    /\ sc.schedule_type \in ScheduleTypes
    /\ sc.schedule_type = "interval" =>
          /\ sc.interval_seconds # None
          /\ sc.interval_seconds >= MinIntervalSeconds
    /\ sc.schedule_type = "cron" => sc.expression # ""
    /\ sc.schedule_type = "once" => sc.run_at # None

\* croniter(expression, now).get_next(): the first occurrence strictly after t;
\* None stands for the ValueError/KeyError of an invalid expression
CronNext(expression, t) ==
    CASE expression = "* * * * *" -> ((t \div 60) + 1) * 60
      [] expression = ""          -> ((t \div 3600) + 1) * 3600
      [] OTHER                    -> None

\* mutant: the interval is not added (next run = time of the calculation)
CalculateNextRunNoInterval(job, t) ==
    CASE job.schedule_type = "interval" -> t
      [] job.schedule_type = "cron" -> CronNext(job.expression, t)
      [] OTHER -> None

\* SchedulerService.calculate_next_run, evaluated at time t
calculate_next_run(job, t) ==
    CASE job.schedule_type = "once" -> None
      [] job.schedule_type = "interval" ->
            t + (IF job.interval_seconds = None
                 THEN DefaultIntervalSeconds ELSE job.interval_seconds)
      [] job.schedule_type = "cron" -> CronNext(job.expression, t)
      [] job.schedule_type = "event_triggered" -> None
      [] OTHER -> None

\* the rows get_due_jobs selects: is_enabled and next_run_at <= now
DueSet(jt, t) ==
    {j \in JobIds : /\ jt[j] # NoJob
                    /\ jt[j].is_enabled
                    /\ jt[j].next_run_at # None
                    /\ jt[j].next_run_at <= t}

\* SchedulerService.get_due_jobs: the orders ORDER BY next_run_at allows
get_due_jobs(jt, t) ==
    LET D == DueSet(jt, t) IN
    {q \in [1..Cardinality(D) -> D] :
        /\ \A a, b \in DOMAIN q : a # b => q[a] # q[b]
        /\ \A a, b \in DOMAIN q : a < b => jt[q[a]].next_run_at <= jt[q[b]].next_run_at}

(***************************************************************************)
(*                   METRIC COLLECTION: data and functions                 *)
(***************************************************************************)

\* bound of the collection model: the last cycle starts at this time
MaxCollectTime == 120

\* MetricCollector.DEFAULT_CONCURRENCY, MAIN_LOOP_INTERVAL
DEFAULT_CONCURRENCY == 10
MAIN_LOOP_INTERVAL == 30
\* CollectionConfig.interval_seconds, column default
IntervalSeconds == 60

\* active tenants in the order collect_all processes them, and their servers
\* (not deleted, collection enabled) in the order of the query
Tenants == <<"A", "B">>
Servers == {"a1", "a2", "b1"}
ServerOrder == <<"a1", "a2", "b1">>
TenantOf == [s \in Servers |-> IF s = "b1" THEN "B" ELSE "A"]

\* how a server answers collect_server:
\*   ok            connects and answers the probes
\*   decrypt_fail  decrypt_password raises EncryptionError
\*   connect_fail  connector.connect raises, after up to its login timeout
\*   probe_fail    conn.cursor() raises
\*   close_fail    the probes are answered, conn.close() raises
\*   hang          a probe query never returns (no query timeout is set)
HealthStates ==
    {"ok", "decrypt_fail", "connect_fail", "probe_fail", "close_fail", "hang"}

\* the conditions each server is put in
HealthInputs ==
    [a1 |-> HealthStates, a2 |-> {"ok", "hang"}, b1 |-> {"ok", "connect_fail"}]

SeqRange(q) == {q[i] : i \in DOMAIN q}

(***************************************************************************)
(*            SCHEDULER CYCLE over several tenants: data                   *)
(***************************************************************************)

\* the active tenants, in the order of the tenant query, and the due jobs of
\* each tenant store, in the order get_due_jobs returns them
CycTenants == <<"A", "B">>
CycJobs == {"j1", "j2", "j3", "j4"}
CycJobOrder == <<"j1", "j2", "j4", "j3">>
CycTenantOf == [j \in CycJobs |-> IF j = "j1" THEN "A" ELSE "B"]
\* Job.type of each job
CycJobType ==
    [j \in CycJobs |-> IF j \in {"j2", "j4"} THEN "custom_script" ELSE "policy_execution"]
\* Job.configuration of each job: a JSON object, or another JSON value (the
\* jobs API stores what the client sent)
CycJobConfig == [j \in CycJobs |-> IF j = "j4" THEN "list" ELSE "dict"]
CycHandlerTypes == {"policy_execution", "custom_script"}

\* no JobExecution row (create_execution has not committed one)
NoRow == [status |-> "none", error_message |-> "none"]

(***************************************************************************)
(*        BLOCKING CHAINS: data and functions (analytics_service.py)       *)
(***************************************************************************)
\* the most rows a snapshot generation holds here
MaxRows == 3

\* session ids of the rows; one request of a session is one row, and a
\* session with several requests has several rows (session_id, request_id)
SessionIds == {1, 2, 3}

\* what a row's blocking_session_id may hold: NULL, 0 (SQL Server's "not
\* blocked"), a session of the generation, or a session that has no row
BlockerIds == {None, 0, 9} \cup SessionIds

RowInputs == [session_id : SessionIds, blocking_session_id : BlockerIds]

\* depth of nested build_tree calls the interpreter allows before it
\* raises RecursionError
RecursionLimit == 6

\* build_tree's "return None"
NoTree == [session_id |-> None, blocked |-> << >>]

\* a build_tree call that went past the recursion limit
Overflow == [session_id |-> -2, blocked |-> << >>]

\* no call of get_blocking_chains has returned yet
NoResult == [chains |-> << >>, total_blocked_sessions |-> None, raised |-> FALSE]

\* Python truth value of a nullable integer column
Truthy(v) == v # None /\ v # 0

\* by_session.get(session_id) found nothing
NoQuery == [session_id |-> None, blocking_session_id |-> None]

\* by_session = {q.session_id: q for q in queries}: the last row wins
by_session(queries, session_id) ==
    LET hits == {i \in DOMAIN queries : queries[i].session_id = session_id}
    IN  IF hits = {} THEN NoQuery
        ELSE queries[CHOOSE i \in hits : \A k \in hits : k <= i]

blocked_by_ids(queries) ==
    {queries[i].blocking_session_id :
        i \in {k \in DOMAIN queries : Truthy(queries[k].blocking_session_id)}}

root_blockers(queries) ==
    LET is_root(q) == /\ q.session_id \in blocked_by_ids(queries)
                      /\ ~Truthy(q.blocking_session_id)
    IN  SelectSeq(queries, is_root)

\* the cycle guard left out
NeverVisited(session_id, visited) == FALSE

\* "if session_id in visited"
Visited(session_id, visited) == session_id \in visited

RECURSIVE build_tree(_, _, _, _)
build_tree(queries, session_id, visited, depth) ==
    IF depth > RecursionLimit THEN Overflow
    ELSE IF Visited(session_id, visited) THEN NoTree
    ELSE IF by_session(queries, session_id) = NoQuery THEN NoTree
    ELSE LET is_blocked(q) == q.blocking_session_id = session_id
             blocked == SelectSeq(queries, is_blocked)
         IN  [session_id |-> by_session(queries, session_id).session_id,
              blocked |-> [i \in DOMAIN blocked |->
                              build_tree(queries, blocked[i].session_id,
                                         visited \cup {session_id}, depth + 1)]]

build_blocking_chains(queries) ==
    LET roots == root_blockers(queries)
    IN  [i \in DOMAIN roots |-> build_tree(queries, roots[i].session_id, {}, 1)]

RECURSIVE SeqSum(_)
SeqSum(ns) == IF ns = << >> THEN 0 ELSE Head(ns) + SeqSum(Tail(ns))

\* _count_blocked: len(blocked) counts every entry of the list, None or not
RECURSIVE count_blocked(_)
count_blocked(node) ==
    IF node = NoTree THEN 0
    ELSE Len(node.blocked)
         + SeqSum([i \in DOMAIN node.blocked |->
                      IF node.blocked[i] # NoTree
                      THEN count_blocked(node.blocked[i]) ELSE 0])

RECURSIVE Overflows(_)
Overflows(node) ==
    \/ node = Overflow
    \/ \E i \in DOMAIN node.blocked : Overflows(node.blocked[i])

\* chains and total of get_blocking_chains for the rows the store returned;
\* an empty generation takes the "not latest_time" return
blocking_chains(queries) ==
    IF queries = << >>
    THEN [chains |-> << >>, total_blocked_sessions |-> 0, raised |-> FALSE]
    ELSE LET chains == build_blocking_chains(queries)
         IN  IF \E i \in DOMAIN chains : Overflows(chains[i])
             THEN [chains |-> << >>, total_blocked_sessions |-> None, raised |-> TRUE]
             ELSE [chains |-> chains,
                   total_blocked_sessions |->
                       SeqSum([i \in DOMAIN chains |-> count_blocked(chains[i])]),
                   raised |-> FALSE]

\* a table keeps no order of its rows: the stored generation is held in one
\* fixed order, by (session_id, blocking_session_id)
RowRank(row) == row.session_id * 16 + row.blocking_session_id + 1

InsertRow(rows, row) ==
    LET k == Cardinality({i \in DOMAIN rows : RowRank(rows[i]) <= RowRank(row)})
    IN  SubSeq(rows, 1, k) \o <<row>> \o SubSeq(rows, k + 1, Len(rows))

\* the rows of a generation in every order an unordered SELECT may give
RowOrders(rows) ==
    {[i \in DOMAIN rows |-> rows[p[i]]] : p \in Permutations(DOMAIN rows)}

(***************************************************************************)
(*          RETENTION CLEANUP: data (workers/metrics_cleanup.py)           *)
(***************************************************************************)
BATCH_SIZE == 10000

DEFAULT_RETENTION_DAYS == 30

\* the day cleanup_tenant runs, counted from the first stored row
Today == DEFAULT_RETENTION_DAYS + 10

\* cutoff = now - timedelta(days=retention_days), no Setting row stored
Cutoff == Today - DEFAULT_RETENTION_DAYS

TableOrder == <<"server_snapshots", "metrics", "running_query_snapshots">>

Tables == {TableOrder[i] : i \in DOMAIN TableOrder}

\* collected_at of the rows: a day before the cutoff, the cutoff itself, today
Days == {Cutoff - 1, Cutoff, Today}

EmptyTable == [d \in Days |-> 0]

\* how many rows older than the cutoff a table may hold when cleanup starts
OldCounts == {0, 1, BATCH_SIZE - 1, BATCH_SIZE, BATCH_SIZE + 1, 2 * BATCH_SIZE}

TableInputs ==
    {EmptyTable}
    \cup {[d \in Days |-> IF d < Cutoff THEN n ELSE 2] : n \in OldCounts}

(***************************************************************************)
(*       TENANT RESOLUTION: data and functions (middleware/tenant.py)      *)
(***************************************************************************)
\* the slugs a row of the tenants table may carry (stored lower-cased)
TnSlugs == {"acme", "beta"}

\* request.headers.get('X-Tenant-Slug') of a request without the header
NoHeader == "<absent>"

HeaderInputs == {NoHeader, "", "acme", "ACME", "beta", "ghost"}

\* g.tenant of a request for which the middleware has set none
NoTenant == "<none>"

\* request.path, as the sequence of its '/'-separated segments
PathInputs ==
    { <<"api", "health">>, <<"api", "health", "live">>, <<"api", "tenants">>,
      <<"api", "tenants", "acme">>, <<"api", "tenants-report">>,
      <<"api", "servers">>, <<"api", "alerts", "counts">> }

EXCLUDED_PATHS == << <<"api", "health">>, <<"api", "tenants">> >>

\* path == excluded or path.startswith(excluded + '/')
is_excluded(path) ==
    \E i \in DOMAIN EXCLUDED_PATHS :
        LET excluded == EXCLUDED_PATHS[i]
        IN  \/ path = excluded
            \/ /\ Len(path) > Len(excluded)
               /\ SubSeq(path, 1, Len(excluded)) = excluded

\* data['slug'] of POST /api/tenants
CreateInputs == {"acme", "ACME", "beta", "ab"}

\* str.lower() on the slugs used here
Lower(s) == IF s = "ACME" THEN "acme" ELSE s

\* Tenant.validate_slug: 3 to 50 characters of the slug pattern
validate_slug(s) == s \in {"acme", "beta", "ghost"}

\* the request the middleware has seen last; none yet
NoRequest ==
    [path |-> << >>, header |-> NoHeader, answered |-> TRUE, code |-> 0,
     error |-> "", g_tenant |-> NoTenant, g_session |-> FALSE,
     handler |-> FALSE]

(***************************************************************************)
(*   QUERY COLLECTION: data (MetricCollector._collect_running_queries)     *)
(***************************************************************************)
\* the most polls of the server a behaviour records
MaxPolls == 3

\* the clock of the query collection stops here
MaxPollTime == 90

\* collection_configs.query_collection_interval, its server default
QueryCollectionInterval == 30

\* seconds between two visits of the collector to the server: the main loop's
\* wait, or less when the worker process is restarted
PollSleeps == {10, MAIN_LOOP_INTERVAL}

\* what the SELECT on sys.dm_exec_requests may fetch, ordered by start_time:
\* the session of each request and the session blocking it (0: not blocked)
LiveInputs ==
    { << >>,
      <<[session_id |-> 1, blocking_session_id |-> 0]>>,
      <<[session_id |-> 1, blocking_session_id |-> 0],
        [session_id |-> 2, blocking_session_id |-> 1]>>,
      <<[session_id |-> 2, blocking_session_id |-> 1],
        [session_id |-> 1, blocking_session_id |-> 0]>> }

\* get_blocking_chains has not been called since the last visit
NoAnswer == [answer |-> NoResult, collected_at |-> None]

(***************************************************************************)
(*     WORKER LIFE CYCLE: data (app/workers/scheduler_worker.py)           *)
(***************************************************************************)
\* the most JobExecution rows a behaviour creates
MaxWkRows == 3

\* _execute_job is not running, or has no handler outcome yet
NoOutcome == "none"

(***************************************************************************)
(*   UNIT SUBMISSION: data (MetricCollector.collect_tenant, first loop)    *)
(***************************************************************************)
\* the clock of the submission model stops here
MaxSubmitTime == 90

\* CollectionConfig.MIN_INTERVAL
MIN_INTERVAL == 30

\* the servers of the tenant, in the order of the joined query
SubmitOrder == <<"v1", "v2">>

SubmitServers == {SubmitOrder[i] : i \in DOMAIN SubmitOrder}

\* interval_seconds values update_config accepts
IntervalInputs == {MIN_INTERVAL, IntervalSeconds}

\* a server as created, with the config create_config_for_server gives it
NewServerRow ==
    [is_deleted |-> FALSE, enabled |-> FALSE, interval_seconds |-> IntervalSeconds,
     last_collected_at |-> None]

(***************************************************************************)
(*   METRIC PROBES: data (MetricCollector._collect_metrics)                *)
(***************************************************************************)
\* the six probes of _collect_metrics, in the order of their try blocks
ProbeOrder ==
    <<"cpu_percent", "memory_percent", "connection_count", "batch_requests_sec",
      "page_life_expectancy", "blocked_processes">>

Probes == {ProbeOrder[i] : i \in DOMAIN ProbeOrder}

\* how one probe ends: cursor.execute or fetchone raises, fetchone returns
\* no row, a row holding NULL, or a row holding a number
ProbeOutcomes == {"raise", "norow", "null", "value"}

\* the probes that store row[0] only when it is not None
NullChecked == {"cpu_percent", "memory_percent"}

\* a key _collect_metrics did not put into the metrics dict
Absent == None - 1

\* no ServerSnapshot row was stored by the unit
NoSnapshot == [p \in Probes |-> Absent]

\* how conn.close() ends: it returns, it raises in the try block only, or it
\* raises there and again in the except clause
CloseOutcomes == {"ok", "raises_once", "raises_twice"}

(***************************************************************************)
(*                              ALERTING                                   *)
(***************************************************************************)

\* bounds of the alerting model
MaxAlerts == 2

\* AlertEvaluator.RESOLVE_THRESHOLD
RESOLVE_THRESHOLD == 2

RuleIds == {"r1", "r2"}
ServerIds == {"s1", "s2"}
MetricTypes == {"cpu_percent", "memory_percent"}
MetricValues == {50, 95}

\* The alert_rules rows of the tenant (is_enabled is state: rule_enabled).
AlertRule(r) ==
    IF r = "r1"
    THEN [metric_type |-> "cpu_percent", operator |-> "gt", threshold |-> 90]
    ELSE [metric_type |-> "memory_percent", operator |-> "gte", threshold |-> 95]

\* the order in which a query for the enabled rules returns them
RuleOrder == <<"r1", "r2">>

\* metrics arguments: metric_type -> value, None when the key is absent
MetricsInputs == [MetricTypes -> MetricValues \cup {None}]

Pairs == RuleIds \X ServerIds

\* _snapshot_to_metrics of a snapshot whose fields are all empty
NoMetrics == [t \in MetricTypes |-> None]

\* _snapshot_to_metrics of the snapshots the collector stores: the cpu probe
\* fetched 95 or 50 or failed, the memory probe fetched 50
SnapshotInputs ==
    {[NoMetrics EXCEPT !["cpu_percent"] = v, !["memory_percent"] = 50] :
        v \in MetricValues \cup {None}}

\* AlertRule.evaluate
evaluate(rule, value) ==
    CASE rule.operator = "gt"  -> value > rule.threshold
      [] rule.operator = "gte" -> value >= rule.threshold
      [] rule.operator = "lt"  -> value < rule.threshold
      [] rule.operator = "lte" -> value <= rule.threshold
      [] rule.operator = "eq"  -> value = rule.threshold
      [] OTHER -> FALSE

NonResolved(al, r, s) ==
    {i \in DOMAIN al : /\ al[i].rule_id = r
                       /\ al[i].server_id = s
                       /\ al[i].status # "resolved"}

\* mutant: looks only for status = active (forgets acknowledged alerts)
GetActiveAlertOnlyActive(al, r, s) ==
    LET m == {i \in DOMAIN al : /\ al[i].rule_id = r
                                /\ al[i].server_id = s
                                /\ al[i].status = "active"}
    IN IF m = {} THEN 0 ELSE CHOOSE i \in m : \A j \in m : i <= j

\* AlertEvaluator._get_active_alert / AlertService.get_active_alert_for_rule_server:
\* the id of a non-resolved alert of the pair, 0 for None
GetActiveAlert(al, r, s) ==
    LET m == NonResolved(al, r, s)
    IN IF m = {} THEN 0 ELSE CHOOSE i \in m : \A j \in m : i <= j

\* resolved_at = datetime.now(timezone.utc): 1 stands for the time of the
\* row's first resolution, 2 for any later time
ResolvedAtNow(old) == IF old = None THEN 1 ELSE 2

\* Alert(rule_id, server_id, metric_value, status=active); the row's
\* metric_value is written once and never read by the code modelled here
NewAlert(r, s, v) ==
    [rule_id |-> r, server_id |-> s, status |-> "active", notes |-> "none",
     resolved_at |-> None]

\* AlertEvaluator._reset_resolve_counter
ResetResolveCounter(cnt, r, s) == [cnt EXCEPT ![<<r, s>>] = 0]

\* One iteration of the rule loop of AlertEvaluator.evaluate_server.
\* st = [alerts, cnt, streak]
EvaluatorRuleStep(st, r, s, m) ==
    LET rule == AlertRule(r)
        v == m[rule.metric_type]
        existing == GetActiveAlert(st.alerts, r, s)
    IN
    IF v = None THEN st
    ELSE IF evaluate(rule, v)
    THEN [alerts |-> IF existing = 0
                     THEN Append(st.alerts, NewAlert(r, s, v))
                     ELSE st.alerts,
          cnt    |-> ResetResolveCounter(st.cnt, r, s),
          streak |-> [st.streak EXCEPT ![<<r, s>>] = 0]]
    ELSE IF existing = 0 THEN st
    ELSE LET c == st.cnt[<<r, s>>] + 1 IN
         IF c >= RESOLVE_THRESHOLD
         THEN [alerts |-> [st.alerts EXCEPT ![existing].status = "resolved",
                                            ![existing].resolved_at = ResolvedAtNow(@),
                                            ![existing].notes = "auto"],
               cnt    |-> ResetResolveCounter(st.cnt, r, s),
               streak |-> [st.streak EXCEPT ![<<r, s>>] = 0]]
         ELSE [alerts |-> st.alerts,
               cnt    |-> [st.cnt EXCEPT ![<<r, s>>] = c],
               streak |-> [st.streak EXCEPT ![<<r, s>>] = @ + 1]]

RECURSIVE EvaluatorLoop(_, _, _, _)
EvaluatorLoop(rules, st, s, m) ==
    IF rules = << >> THEN st
    ELSE EvaluatorLoop(Tail(rules),
                       IF rule_enabled[Head(rules)]
                       THEN EvaluatorRuleStep(st, Head(rules), s, m)
                       ELSE st,
                       s, m)

\* AlertEvaluator.evaluate_server(server_id, metrics)
evaluate_server(s, m) ==
    LET st == EvaluatorLoop(RuleOrder,
                  [alerts |-> alerts, cnt |-> resolved_count, streak |-> streak],
                  s, m)
    IN /\ Len(st.alerts) <= MaxAlerts
       /\ alerts' = st.alerts
       /\ resolved_count' = st.cnt
       /\ streak' = st.streak
       /\ UNCHANGED rule_enabled

\* One iteration of the rule loop of AlertService.evaluate_rules_for_server.
\* st = [alerts, streak]
ServiceRuleStep(st, r, s, m) ==
    LET rule == AlertRule(r)
        v == m[rule.metric_type]
        existing == GetActiveAlert(st.alerts, r, s)
    IN
    IF v # None /\ evaluate(rule, v) /\ existing = 0
    THEN [alerts |-> Append(st.alerts, NewAlert(r, s, v)),
          streak |-> [st.streak EXCEPT ![<<r, s>>] = 0]]
    ELSE st

RECURSIVE ServiceLoop(_, _, _, _)
ServiceLoop(rules, st, s, m) ==
    IF rules = << >> THEN st
    ELSE ServiceLoop(Tail(rules),
                     IF rule_enabled[Head(rules)]
                     THEN ServiceRuleStep(st, Head(rules), s, m)
                     ELSE st,
                     s, m)

\* AlertService.evaluate_rules_for_server(server_id, metrics)
evaluate_rules_for_server(s, m) ==
    LET st == ServiceLoop(RuleOrder, [alerts |-> alerts, streak |-> streak], s, m)
    IN /\ Len(st.alerts) <= MaxAlerts
       /\ alerts' = st.alerts
       /\ streak' = st.streak
       /\ UNCHANGED <<rule_enabled, resolved_count>>

NotesInputs == {"none", "manual"}

\* AlertService.acknowledge_alert(alert_id, notes)
acknowledge_alert(a, notes) ==
    /\ a \in DOMAIN alerts
    /\ alerts' = IF alerts[a].status = "resolved"
                 THEN alerts
                 ELSE [alerts EXCEPT ![a].status = "acknowledged",
                                     ![a].notes = IF notes # "none" THEN notes ELSE @]
    /\ UNCHANGED <<rule_enabled, resolved_count, streak>>

\* AlertService.resolve_alert(alert_id, notes)
resolve_alert(a, notes) ==
    /\ a \in DOMAIN alerts
    /\ alerts' = [alerts EXCEPT ![a].status = "resolved",
                                ![a].resolved_at = ResolvedAtNow(@),
                                ![a].notes = IF notes # "none" THEN notes ELSE @]
    /\ streak' = IF alerts[a].status # "resolved"
                 THEN [streak EXCEPT ![<<alerts[a].rule_id, alerts[a].server_id>>] = 0]
                 ELSE streak
    /\ UNCHANGED <<rule_enabled, resolved_count>>

\* AlertService.enable_rule / disable_rule (update_rule with is_enabled)
update_rule(r, is_enabled) ==
    /\ rule_enabled' = [rule_enabled EXCEPT ![r] = is_enabled]
    /\ UNCHANGED <<alerts, resolved_count, streak>>

\* the state after construction: AlertEvaluator() with an empty alerts table,
\* JobSchedulerWorker() not yet started with empty job tables, MetricCollector()
\* before its first cycle
Init ==
    /\ rule_enabled = [r \in RuleIds |-> TRUE]
    /\ alerts = << >>
    /\ resolved_count = [p \in Pairs |-> 0]
    /\ streak = [p \in Pairs |-> 0]
    /\ now = 0
    /\ jobs = [j \in JobIds |-> NoJob]
    /\ executions = << >>
    /\ handlers = {}
    /\ next_fire = None
    /\ pc = [t \in Threads |-> IF t = "main" THEN "init" ELSE "idle"]
    /\ due = [t \in Threads |-> << >>]
    /\ cur = [t \in Threads |-> NoCur]
    /\ health = [s \in Servers |-> "ok"]
    /\ srv_status = [s \in Servers |-> "unknown"]
    /\ last_collected_at = [s \in Servers |-> None]
    /\ last_snapshot_at = [s \in Servers |-> None]
    /\ unit = [s \in Servers |-> "none"]
    /\ queue = << >>
    /\ hung = 0
    /\ cpc = "sleep"
    /\ ct = 1
    /\ futures = << >>
    /\ timed_out = {}
    /\ cyc_pc = "idle"
    /\ cyc_tenants = << >>
    /\ cyc_due = << >>
    /\ cyc_handlers = {}
    /\ cyc_shutdown = FALSE
    /\ cyc_rows = [j \in CycJobs |-> NoRow]
    /\ cyc_attempted = {}
    /\ cyc_returned = {}
    /\ cyc_executed = {}
    /\ cyc_ran = {}
    /\ cyc_fault = {}
    /\ rq_generation = << >>
    /\ bc_result = NoResult
    /\ rq_empty_poll = FALSE
    /\ tables = [t \in Tables |-> EmptyTable]
    /\ cl_running = TRUE
    /\ cl_pc = "idle"
    /\ cl_tbl = 1
    /\ cl_total = [t \in Tables |-> 0]
    /\ cl_before = [t \in Tables |-> EmptyTable]
    /\ cl_fetches = [t \in Tables |-> 0]
    /\ cl_passes = [t \in Tables |-> 0]
    /\ cl_short = {}
    /\ cl_errors = {}
    /\ cl_stopped = FALSE
    /\ tn_status = [s \in TnSlugs |-> "absent"]
    /\ tn_req = NoRequest
    /\ pq_now = 0
    /\ pq_pc = "collect"
    /\ pq_rows = << >>
    /\ pq_last = None
    /\ pq_polls = << >>
    /\ pq_result = NoAnswer
    /\ wk_proc = "down"
    /\ wk_pc = "idle"
    /\ wk_rows = << >>
    /\ wk_cur = 0
    /\ wk_outcome = NoOutcome
    /\ sb_now = 0
    /\ sb_rows = [s \in SubmitServers |-> NewServerRow]
    /\ sb_pc = "idle"
    /\ sb_running = TRUE
    /\ sb_submitted = << >>
    /\ sb_pending = {}
    /\ sb_broken = FALSE
    /\ pr_pc = "idle"
    /\ pr_outcomes = [p \in Probes |-> "value"]
    /\ pr_close = "ok"
    /\ pr_commit_ok = TRUE
    /\ pr_ran = << >>
    /\ pr_snapshot = NoSnapshot
    /\ pr_status = "unknown"
    /\ ev_latest = [s \in ServerIds |-> NoMetrics]
    /\ ev_has = {}
    /\ ev_failed = [s \in ServerIds |-> FALSE]
    /\ ev_seen = {}
    /\ ev_tick = FALSE

EvaluateServer ==
    /\ \E s \in ServerIds, m \in MetricsInputs : evaluate_server(s, m)
    /\ UNCHANGED <<schedVars, collVars, extVars>>
EvaluateRulesForServer ==
    /\ \E s \in ServerIds, m \in MetricsInputs : evaluate_rules_for_server(s, m)
    /\ UNCHANGED <<schedVars, collVars, extVars>>
AcknowledgeAlert ==
    /\ \E a \in 1..MaxAlerts, n \in NotesInputs : acknowledge_alert(a, n)
    /\ UNCHANGED <<schedVars, collVars, extVars>>
ResolveAlert ==
    /\ \E a \in 1..MaxAlerts, n \in NotesInputs : resolve_alert(a, n)
    /\ UNCHANGED <<schedVars, collVars, extVars>>
UpdateRule ==
    /\ \E r \in RuleIds, b \in BOOLEAN : update_rule(r, b)
    /\ UNCHANGED <<schedVars, collVars, extVars>>

AlertNext ==
    \/ EvaluateServer
    \/ EvaluateRulesForServer
    \/ AcknowledgeAlert
    \/ ResolveAlert
    \/ UpdateRule

SpecAlert == Init /\ [][AlertNext]_vars

(***************************************************************************)
(*                     ALERTING: properties                                *)
(***************************************************************************)

PairOf(a) == <<a.rule_id, a.server_id>>

\* C1: after any sequence of evaluate_server, evaluate_rules_for_server,
\* acknowledge_alert and resolve_alert calls, every (rule_id, server_id)
\* pair has at most one Alert whose status is not resolved.
C1_AtMostOneNonResolved ==
    \A p \in Pairs : Cardinality(NonResolved(alerts, p[1], p[2])) <= 1

\* C1 witness: a pair whose first Alert was acknowledged and resolved by
\* hand or by the evaluator, and whose rule triggered again: the resolved
\* Alert and its successor (acknowledged by now) are both in the table.
C1_Witness ==
    \E i, j \in DOMAIN alerts :
        /\ i < j
        /\ PairOf(alerts[i]) = PairOf(alerts[j])
        /\ alerts[i].status = "resolved"
        /\ alerts[j].status = "acknowledged"

\* C4: for a pair with a non-resolved Alert, the first non-triggering
\* evaluation leaves the Alert non-resolved and the Alert is resolved exactly
\* at the second consecutive non-triggering evaluation: an Alert is never
\* auto-resolved after fewer than RESOLVE_THRESHOLD consecutive normal
\* readings (first conjunct), and is not left non-resolved once it has seen
\* that many (second conjunct).
C4_ResolvedExactlyAtSecondNormal ==
    [][\A i \in DOMAIN alerts :
          /\ ( /\ alerts[i].status # "resolved"
               /\ alerts'[i].status = "resolved"
               /\ alerts'[i].notes = "auto" )
             => streak[PairOf(alerts[i])] + 1 >= RESOLVE_THRESHOLD
          /\ alerts'[i].status # "resolved"
             => streak'[PairOf(alerts[i])] < RESOLVE_THRESHOLD
      ]_vars

\* C26: a resolved Alert is terminal: no call of acknowledge_alert,
\* resolve_alert or of an evaluator changes its status or its resolved_at,
\* and no row is removed: a new trigger of the pair adds a row.
C26_ResolvedIsTerminal ==
    [][\A i \in DOMAIN alerts :
          alerts[i].status = "resolved" =>
              /\ i \in DOMAIN alerts'
              /\ alerts'[i].status = "resolved"
              /\ alerts'[i].resolved_at = alerts[i].resolved_at
      ]_vars

(***************************************************************************)
(*                 SCHEDULING: JobService (management API)                 *)
(***************************************************************************)

EnabledInputs == {"keep", "true", "false"}
NoChange == [schedule_type |-> "keep"]

\* Job(name, type, configuration, schedule_type, schedule_config, is_enabled)
NewJob(j, job_type, sc, is_enabled) ==
    [id |-> j, type |-> job_type,
     schedule_type |-> sc.schedule_type,
     interval_seconds |-> sc.interval_seconds,
     expression |-> sc.expression,
     run_at |-> sc.run_at,
     is_enabled |-> is_enabled,
     next_run_at |-> None, last_run_at |-> None]

\* JobService.create_job
create_job(j, job_type, sc, is_enabled) ==
    /\ jobs[j] = NoJob
    /\ validate_job_input(job_type, sc)
    /\ LET job == NewJob(j, job_type, sc, is_enabled) IN
       jobs' = [jobs EXCEPT ![j] =
                  IF is_enabled
                  THEN [job EXCEPT !.next_run_at = calculate_next_run(job, now)]
                  ELSE job]
    /\ UNCHANGED <<now, executions, handlers, next_fire, pc, due, cur>>

\* JobService.update_job(job_id, schedule_type/schedule_config, is_enabled)
update_job(j, sc, en) ==
    /\ jobs[j] # NoJob
    /\ sc # NoChange => validate_job_input(jobs[j].type, sc)
    /\ LET old == jobs[j]
           j1 == IF sc = NoChange THEN old
                 ELSE [old EXCEPT !.schedule_type = sc.schedule_type,
                                  !.interval_seconds = sc.interval_seconds,
                                  !.expression = sc.expression,
                                  !.run_at = sc.run_at]
           schedule_changed == sc # NoChange
           was_disabled == ~old.is_enabled
           j2 == IF en = "keep" THEN j1 ELSE [j1 EXCEPT !.is_enabled = (en = "true")]
       IN jobs' = [jobs EXCEPT ![j] =
                     IF j2.is_enabled /\ (schedule_changed \/ (was_disabled /\ en = "true"))
                     THEN [j2 EXCEPT !.next_run_at = calculate_next_run(j2, now)]
                     ELSE IF ~j2.is_enabled
                     THEN [j2 EXCEPT !.next_run_at = None]
                     ELSE j2]
    /\ UNCHANGED <<now, executions, handlers, next_fire, pc, due, cur>>

\* JobService.enable_job
enable_job(j) ==
    /\ jobs[j] # NoJob
    /\ jobs' = [jobs EXCEPT ![j] =
                  [jobs[j] EXCEPT !.is_enabled = TRUE,
                                  !.next_run_at = calculate_next_run(jobs[j], now)]]
    /\ UNCHANGED <<now, executions, handlers, next_fire, pc, due, cur>>

\* JobService.disable_job
disable_job(j) ==
    /\ jobs[j] # NoJob
    /\ jobs' = [jobs EXCEPT ![j] =
                  [jobs[j] EXCEPT !.is_enabled = FALSE, !.next_run_at = None]]
    /\ UNCHANGED <<now, executions, handlers, next_fire, pc, due, cur>>

\* JobService.run_job_now (api/jobs.py POST /jobs/<id>/run)
run_job_now(j) ==
    /\ jobs[j] # NoJob
    /\ jobs' = [jobs EXCEPT ![j] = [jobs[j] EXCEPT !.next_run_at = now]]
    /\ UNCHANGED <<now, executions, handlers, next_fire, pc, due, cur>>

(***************************************************************************)
(*        SCHEDULING: JobExecutor, SchedulerService, worker threads        *)
(***************************************************************************)

\* create_default_executor: a handler is registered for every job type
create_default_executor == JobTypes

\* JobExecutor.execute: handler = self.handlers.get(job.type)
HasHandler(job_type) == job_type \in handlers

\* the clock advances by one poll interval; the interval trigger fires
\* before the clock passes its fire time
Tick ==
    /\ now + PollInterval <= MaxTime
    /\ next_fire # None => now < next_fire
    /\ now' = now + PollInterval
    /\ UNCHANGED <<jobs, executions, handlers, next_fire, pc, due, cur>>

\* JobSchedulerWorker.start: schedules the periodic checker, then runs
\* _check_jobs at once in the calling thread (_process_tenant_jobs up to
\* get_due_jobs)
start ==
    /\ pc["main"] = "init"
    /\ handlers' = create_default_executor
    /\ next_fire' = now + PollInterval
    /\ \E q \in get_due_jobs(jobs, now) :
          due' = [due EXCEPT !["main"] = q]
    /\ pc' = [pc EXCEPT !["main"] = "loop"]
    /\ UNCHANGED <<now, jobs, executions, cur>>

\* the interval trigger fires and no earlier _check_jobs of it is running:
\* _check_jobs, _process_tenant_jobs up to get_due_jobs
periodic_check ==
    /\ next_fire # None /\ now >= next_fire
    /\ pc["periodic"] = "idle"
    /\ next_fire' = next_fire + PollInterval
    /\ \E q \in get_due_jobs(jobs, now) :
          due' = [due EXCEPT !["periodic"] = q]
    /\ pc' = [pc EXCEPT !["periodic"] = "loop"]
    /\ UNCHANGED <<now, jobs, executions, handlers, cur>>

\* the interval trigger fires while its earlier run is still executing:
\* the run is skipped (one instance of 'job_checker' at a time)
periodic_skipped ==
    /\ next_fire # None /\ now >= next_fire
    /\ pc["periodic"] # "idle"
    /\ next_fire' = next_fire + PollInterval
    /\ UNCHANGED <<now, jobs, executions, handlers, pc, due, cur>>

\* _process_tenant_jobs: the for loop is exhausted, session.remove()
loop_done(t) ==
    /\ pc[t] = "loop" /\ due[t] = << >>
    /\ pc' = [pc EXCEPT ![t] = "idle"]
    /\ UNCHANGED <<now, jobs, executions, handlers, next_fire, due, cur>>

\* SchedulerService.create_execution
NewExecution(j) ==
    [job_id |-> j, status |-> "running", result |-> "none", error_message |-> "none"]

\* _execute_job, first part: create_execution, then JobExecutor.execute up to
\* the handler lookup.  ok = FALSE: the commit of create_execution raises and
\* _process_tenant_jobs logs it and goes on with the next job.
pick_job(t, ok) ==
    /\ pc[t] = "loop" /\ due[t] # << >>
    /\ Len(executions) < MaxExec
    /\ due' = [due EXCEPT ![t] = Tail(due[t])]
    /\ LET j == Head(due[t]) IN
       IF ok
       THEN /\ executions' = Append(executions, NewExecution(j))
            /\ IF HasHandler(jobs[j].type)
               THEN /\ pc' = [pc EXCEPT ![t] = "handler"]
                    /\ cur' = [cur EXCEPT ![t] =
                                 [NoCur EXCEPT !.job = j, !.exec = Len(executions) + 1]]
               ELSE /\ pc' = [pc EXCEPT ![t] = "complete"]
                    /\ cur' = [cur EXCEPT ![t] =
                                 [job |-> j, exec |-> Len(executions) + 1,
                                  success |-> FALSE, result |-> "none",
                                  error |-> "no_handler"]]
       ELSE UNCHANGED <<executions, pc, cur>>
    /\ UNCHANGED <<now, jobs, handlers, next_fire>>

\* JobExecutor.execute: future.result(timeout) returns the handler's result
handler_returns(t) ==
    /\ pc[t] = "handler"
    /\ cur' = [cur EXCEPT ![t].success = TRUE, ![t].result = "result"]
    /\ pc' = [pc EXCEPT ![t] = "complete"]
    /\ UNCHANGED <<now, jobs, executions, handlers, next_fire, due>>

\* JobExecutor.execute: the handler raises
handler_raises(t) ==
    /\ pc[t] = "handler"
    /\ cur' = [cur EXCEPT ![t].success = FALSE, ![t].error = "handler_error"]
    /\ pc' = [pc EXCEPT ![t] = "complete"]
    /\ UNCHANGED <<now, jobs, executions, handlers, next_fire, due>>

\* JobExecutor.execute: FuturesTimeoutError
handler_times_out(t) ==
    /\ pc[t] = "handler"
    /\ cur' = [cur EXCEPT ![t].success = FALSE, ![t].error = "timeout"]
    /\ pc' = [pc EXCEPT ![t] = "complete"]
    /\ UNCHANGED <<now, jobs, executions, handlers, next_fire, due>>

\* SchedulerService.complete_execution applied to the table
CompleteRow(ex, e, success, result, error_message) ==
    [ex EXCEPT ![e].status = IF success THEN "success" ELSE "failed",
               ![e].result = result,
               ![e].error_message = error_message]

\* SchedulerService.update_job_after_execution applied to the table
UpdateJobRow(jt, j, t) ==
    [jt EXCEPT ![j].last_run_at = t,
               ![j].next_run_at = calculate_next_run(jt[j], t)]

\* _execute_job: service.complete_execution in the try block;
\* ok = FALSE: its commit raises and control passes to the except block
complete_execution(t, ok) ==
    /\ pc[t] = "complete"
    /\ IF ok
       THEN /\ executions' = CompleteRow(executions, cur[t].exec, cur[t].success,
                                         cur[t].result, cur[t].error)
            /\ pc' = [pc EXCEPT ![t] = "update"]
            /\ UNCHANGED cur
       ELSE /\ pc' = [pc EXCEPT ![t] = "exc_complete"]
            /\ cur' = [cur EXCEPT ![t].error = "store_error"]
            /\ UNCHANGED executions
    /\ UNCHANGED <<now, jobs, handlers, next_fire, due>>

\* _execute_job: service.update_job_after_execution in the try block;
\* ok = FALSE: it raises and control passes to the except block
update_job_after_execution(t, ok) ==
    /\ pc[t] = "update"
    /\ IF ok
       THEN /\ jobs' = UpdateJobRow(jobs, cur[t].job, now)
            /\ pc' = [pc EXCEPT ![t] = "loop"]
            /\ cur' = [cur EXCEPT ![t] = NoCur]
       ELSE /\ pc' = [pc EXCEPT ![t] = "exc_complete"]
            /\ cur' = [cur EXCEPT ![t].error = "store_error"]
            /\ UNCHANGED jobs
    /\ UNCHANGED <<now, executions, handlers, next_fire, due>>

\* _execute_job, except block: complete_execution(success=False, str(e));
\* ok = FALSE: it raises again, out of _execute_job
except_complete_execution(t, ok) ==
    /\ pc[t] = "exc_complete"
    /\ IF ok
       THEN /\ executions' = CompleteRow(executions, cur[t].exec, FALSE,
                                         "none", cur[t].error)
            /\ pc' = [pc EXCEPT ![t] = "exc_update"]
            /\ UNCHANGED cur
       ELSE /\ pc' = [pc EXCEPT ![t] = "loop"]
            /\ cur' = [cur EXCEPT ![t] = NoCur]
            /\ UNCHANGED executions
    /\ UNCHANGED <<now, jobs, handlers, next_fire, due>>

\* _execute_job, except block: update_job_after_execution;
\* ok = FALSE: it raises, out of _execute_job
except_update_job(t, ok) ==
    /\ pc[t] = "exc_update"
    /\ jobs' = IF ok THEN UpdateJobRow(jobs, cur[t].job, now) ELSE jobs
    /\ pc' = [pc EXCEPT ![t] = "loop"]
    /\ cur' = [cur EXCEPT ![t] = NoCur]
    /\ UNCHANGED <<now, executions, handlers, next_fire, due>>

CreateJob ==
    /\ \E j \in JobIds, ty \in JobTypes, sc \in ScheduleInputs, en \in BOOLEAN :
          create_job(j, ty, sc, en)
    /\ UNCHANGED <<alertVars, collVars, extVars>>
UpdateJob ==
    /\ \E j \in JobIds, sc \in ScheduleInputs \cup {NoChange}, en \in EnabledInputs :
          update_job(j, sc, en)
    /\ UNCHANGED <<alertVars, collVars, extVars>>
EnableJob == (\E j \in JobIds : enable_job(j)) /\ UNCHANGED <<alertVars, collVars, extVars>>
DisableJob == (\E j \in JobIds : disable_job(j)) /\ UNCHANGED <<alertVars, collVars, extVars>>
RunJobNow == (\E j \in JobIds : run_job_now(j)) /\ UNCHANGED <<alertVars, collVars, extVars>>
ClockTick == Tick /\ UNCHANGED <<alertVars, collVars, extVars>>
WorkerStart == start /\ UNCHANGED <<alertVars, collVars, extVars>>
PeriodicCheck == periodic_check /\ UNCHANGED <<alertVars, collVars, extVars>>
PeriodicSkipped == periodic_skipped /\ UNCHANGED <<alertVars, collVars, extVars>>
LoopDone == (\E t \in Threads : loop_done(t)) /\ UNCHANGED <<alertVars, collVars, extVars>>
PickJob == (\E t \in Threads, ok \in BOOLEAN : pick_job(t, ok)) /\ UNCHANGED <<alertVars, collVars, extVars>>
HandlerReturns == (\E t \in Threads : handler_returns(t)) /\ UNCHANGED <<alertVars, collVars, extVars>>
HandlerRaises == (\E t \in Threads : handler_raises(t)) /\ UNCHANGED <<alertVars, collVars, extVars>>
HandlerTimesOut == (\E t \in Threads : handler_times_out(t)) /\ UNCHANGED <<alertVars, collVars, extVars>>
CompleteExecution ==
    (\E t \in Threads, ok \in BOOLEAN : complete_execution(t, ok)) /\ UNCHANGED <<alertVars, collVars, extVars>>
UpdateJobAfterExecution ==
    (\E t \in Threads, ok \in BOOLEAN : update_job_after_execution(t, ok))
    /\ UNCHANGED <<alertVars, collVars, extVars>>
ExceptCompleteExecution ==
    (\E t \in Threads, ok \in BOOLEAN : except_complete_execution(t, ok))
    /\ UNCHANGED <<alertVars, collVars, extVars>>
ExceptUpdateJob ==
    (\E t \in Threads, ok \in BOOLEAN : except_update_job(t, ok)) /\ UNCHANGED <<alertVars, collVars, extVars>>

SchedNext ==
    \/ CreateJob
    \/ UpdateJob
    \/ EnableJob
    \/ DisableJob
    \/ RunJobNow
    \/ ClockTick
    \/ WorkerStart
    \/ PeriodicCheck
    \/ PeriodicSkipped
    \/ LoopDone
    \/ PickJob
    \/ HandlerReturns
    \/ HandlerRaises
    \/ HandlerTimesOut
    \/ CompleteExecution
    \/ UpdateJobAfterExecution
    \/ ExceptCompleteExecution
    \/ ExceptUpdateJob

SpecSched == Init /\ [][SchedNext]_vars

(***************************************************************************)
(*                         SCHEDULING: properties                          *)
(***************************************************************************)

\* the positions of a checking thread inside _execute_job
ExecPcs == {"handler", "complete", "update", "exc_complete", "exc_update"}

\* thread t leaves _execute_job in this step
LeavesExecuteJob(t) == pc[t] \in ExecPcs /\ pc'[t] = "loop"

\* C2: whenever the worker has executed a due job, whatever the outcome, it
\* leaves _execute_job with the job's last_run_at set to the current time and
\* next_run_at replaced by calculate_next_run's result.
C2_AlwaysUpdatesAfterExecution ==
    [][\A t \in Threads :
          LeavesExecuteJob(t) =>
             /\ jobs'[cur[t].job].last_run_at = now
             /\ jobs'[cur[t].job].next_run_at = calculate_next_run(jobs[cur[t].job], now)]_vars

TerminalStatuses == {"success", "failed"}

C5_NoJobExecutedByTwoUnits ==
    \A t1, t2 \in Threads :
       (t1 # t2 /\ cur[t1].job # 0) => cur[t1].job # cur[t2].job

\* the job's schedule produces a future occurrence
ProducesFutureOccurrence(job) == calculate_next_run(job, now) # None

\* C7: a job's next_run_at is non-null if and only if the job is enabled and
\* its schedule produces a future occurrence.
C7_NextRunIffEnabledAndRecurring ==
    \A j \in JobIds :
       jobs[j] # NoJob =>
          (jobs[j].next_run_at # None <=>
             (jobs[j].is_enabled /\ ProducesFutureOccurrence(jobs[j])))

\* C8: the creation of an enabled once job with a run_at enqueues it at that
\* run_at (next_run_at = run_at), so that the scheduler loop fires it.
C8_OnceJobEnqueuedAtRunAt ==
    [][\A j \in JobIds :
          (/\ jobs[j] = NoJob
           /\ jobs'[j] # NoJob
           /\ jobs'[j].schedule_type = "once"
           /\ jobs'[j].is_enabled) =>
             jobs'[j].next_run_at = jobs'[j].run_at]_vars

\* C9: a run-now request creates no JobExecution, sets next_run_at to the
\* current time, and the job is then among the due jobs of the next check.
C9_RunNowIsPickedUp ==
    [][\A j \in JobIds :
          run_job_now(j) =>
             /\ executions' = executions
             /\ jobs'[j].next_run_at = now
             /\ j \in DueSet(jobs', now)]_vars
\* C14: whenever update_job_after_execution is written for an interval job
\* with interval_seconds = n, n is at least 60 and the job gets last_run_at =
\* now and next_run_at = now + n; and for every interval job in the store the
\* calculated next run is later than the time of the calculation.
C14_IntervalNextRun ==
    [][/\ \A j \in JobIds :
             (jobs[j] # NoJob /\ jobs[j].schedule_type = "interval") =>
                calculate_next_run(jobs[j], now) > now
       /\ \A t \in Threads :
             (update_job_after_execution(t, TRUE) \/ except_update_job(t, TRUE)) =>
                LET j == cur[t].job IN
                jobs[j].schedule_type = "interval" =>
                   /\ jobs[j].interval_seconds >= MinIntervalSeconds
                   /\ jobs'[j].last_run_at = now
                   /\ jobs'[j].next_run_at = now + jobs[j].interval_seconds]_vars

\* an enabled interval job that was executed with success and then updated:
\* its next run is one interval after its last run
C14_Witness ==
    \E j \in JobIds :
       /\ jobs[j] # NoJob
       /\ jobs[j].schedule_type = "interval" /\ jobs[j].is_enabled
       /\ jobs[j].last_run_at = now /\ now > 0
       /\ jobs[j].next_run_at = jobs[j].last_run_at + jobs[j].interval_seconds
       /\ \E e \in 1..Len(executions) :
             executions[e].job_id = j /\ executions[e].status = "success"


(***************************************************************************)
(*                      METRIC COLLECTION: operations                      *)
(***************************************************************************)

\* pool workers that can take a unit from the queue
FreeWorkers ==
    DEFAULT_CONCURRENCY - hung - Cardinality({s \in Servers : unit[s] = "running"})

\* collect_tenant: "if config.last_collected_at: ... if elapsed <
\* config.interval_seconds: continue"
IsDue(s) ==
    \/ last_collected_at[s] = None
    \/ now - last_collected_at[s] >= IntervalSeconds

\* collect_tenant: the servers submitted for tenant tn, in query order
SubmitList(tn) ==
    SelectSeq(ServerOrder, LAMBDA s : TenantOf[s] = tn /\ IsDue(s))

\* the environment: a server's condition changes between two cycles
set_health(s, h) ==
    /\ cpc = "sleep"
    /\ health[s] # h
    /\ health' = [health EXCEPT ![s] = h]
    /\ UNCHANGED <<now, srv_status, last_collected_at, last_snapshot_at, unit,
                   queue, hung, cpc, ct, futures, timed_out>>

\* run: a cycle begins, collect_all queries the active tenants
collect_all ==
    /\ cpc = "sleep"
    /\ cpc' = "collect"
    /\ ct' = 1
    /\ unit' = [s \in Servers |-> "none"]
    /\ timed_out' = {}
    /\ UNCHANGED <<now, health, srv_status, last_collected_at, last_snapshot_at,
                   queue, hung, futures>>

\* collect_tenant, first loop: executor.submit for every due server
collect_tenant ==
    /\ cpc = "collect" /\ ct <= Len(Tenants)
    /\ LET L == SubmitList(Tenants[ct]) IN
       /\ futures' = L
       /\ queue' = queue \o SelectSeq(L, LAMBDA s : s \notin SeqRange(queue))
       /\ unit' = [s \in Servers |-> IF s \in SeqRange(L) THEN "queued" ELSE unit[s]]
    /\ cpc' = "wait"
    /\ UNCHANGED <<now, health, srv_status, last_collected_at, last_snapshot_at,
                   hung, ct, timed_out>>

\* mutant: every outcome is recorded as online
StatusOfAlwaysOnline(h) == "online"

\* collect_server: the status handed to _update_server_status for outcome h
StatusOf(h) ==
    CASE h = "ok" -> "online"
      [] h = "connect_fail" -> "offline"
      [] h \in {"decrypt_fail", "probe_fail"} -> "error"

\* a pool worker takes the oldest unit and runs collect_server on it; a unit
\* that answers at once is run to its end.  k tells whether the store accepts
\* the commit of _update_server_status; when it does not, the session is
\* rolled back and the unit ends with nothing written ("lost").
\* Running-query collection is off (query_collection_enabled defaults to
\* false).
collect_server(k) ==
    /\ queue # << >> /\ FreeWorkers > 0
    /\ LET s == Head(queue) IN
       /\ queue' = Tail(queue)
       /\ CASE health[s] = "ok" ->
                 \* snapshot, last_collected_at and status online are committed
                 \* by the one commit of _update_server_status
                 /\ IF k
                    THEN /\ last_snapshot_at' = [last_snapshot_at EXCEPT ![s] = now]
                         /\ last_collected_at' = [last_collected_at EXCEPT ![s] = now]
                         /\ srv_status' = [srv_status EXCEPT ![s] = StatusOf("ok")]
                         /\ unit' = [unit EXCEPT ![s] = "done"]
                    ELSE /\ unit' = [unit EXCEPT ![s] = "lost"]
                         /\ UNCHANGED <<last_snapshot_at, last_collected_at, srv_status>>
                 /\ UNCHANGED hung
            [] health[s] \in {"decrypt_fail", "probe_fail"} ->
                 /\ IF k
                    THEN /\ srv_status' = [srv_status EXCEPT ![s] = StatusOf(health[s])]
                         /\ unit' = [unit EXCEPT ![s] = "done"]
                    ELSE /\ unit' = [unit EXCEPT ![s] = "lost"]
                         /\ UNCHANGED srv_status
                 /\ UNCHANGED <<last_snapshot_at, last_collected_at, hung>>
            [] health[s] = "close_fail" ->
                 \* conn.close() raises in the try block and again in its except
                 \* clause; the outer except logs, session.remove() drops the
                 \* pending snapshot, no status is written
                 /\ unit' = [unit EXCEPT ![s] = "lost"]
                 /\ UNCHANGED <<last_snapshot_at, last_collected_at, srv_status, hung>>
            [] health[s] = "connect_fail" ->
                 /\ unit' = [unit EXCEPT ![s] = "running"]
                 /\ UNCHANGED <<last_snapshot_at, last_collected_at, srv_status, hung>>
            [] health[s] = "hang" ->
                 /\ unit' = [unit EXCEPT ![s] = "hung"]
                 /\ hung' = hung + 1
                 /\ UNCHANGED <<last_snapshot_at, last_collected_at, srv_status>>
    /\ UNCHANGED <<now, health, cpc, ct, futures, timed_out>>

\* collect_server: connector.connect raises, _update_server_status('offline')
connect_fails(s, k) ==
    /\ unit[s] = "running"
    /\ IF k
       THEN /\ srv_status' = [srv_status EXCEPT ![s] = StatusOf("connect_fail")]
            /\ unit' = [unit EXCEPT ![s] = "done"]
       ELSE /\ unit' = [unit EXCEPT ![s] = "lost"]
            /\ UNCHANGED srv_status
    /\ UNCHANGED <<now, health, last_collected_at, last_snapshot_at, queue, hung,
                   cpc, ct, futures, timed_out>>

\* collect_tenant, second loop: future.result(timeout) returns
wait_done ==
    /\ cpc = "wait" /\ futures # << >>
    /\ unit[Head(futures)] \in {"done", "lost"}
    /\ futures' = Tail(futures)
    /\ UNCHANGED <<now, health, srv_status, last_collected_at, last_snapshot_at,
                   unit, queue, hung, cpc, ct, timed_out>>

\* collect_tenant, second loop: future.result(timeout) raises TimeoutError
\* (the unit is still connecting, hangs, or waits for a pool worker);
\* the except clause logs a warning
wait_timeout ==
    /\ cpc = "wait" /\ futures # << >>
    /\ \/ unit[Head(futures)] \in {"running", "hung"}
       \/ unit[Head(futures)] = "queued" /\ FreeWorkers = 0
    /\ futures' = Tail(futures)
    /\ timed_out' = timed_out \cup {Head(futures)}
    /\ UNCHANGED <<now, health, srv_status, last_collected_at, last_snapshot_at,
                   unit, queue, hung, cpc, ct>>

\* collect_tenant returns, collect_all goes on with the next tenant
collect_tenant_return ==
    /\ cpc = "wait" /\ futures = << >>
    /\ cpc' = "collect"
    /\ ct' = ct + 1
    /\ UNCHANGED <<now, health, srv_status, last_collected_at, last_snapshot_at,
                   unit, queue, hung, futures, timed_out>>

\* run: collect_all has returned, the loop sleeps until MAIN_LOOP_INTERVAL
\* has passed; connection attempts have ended by then
cycle_end ==
    /\ cpc = "collect" /\ ct > Len(Tenants)
    /\ \A s \in Servers : unit[s] # "running"
    /\ queue = << >> \/ FreeWorkers = 0
    /\ now + MAIN_LOOP_INTERVAL <= MaxCollectTime
    /\ now' = now + MAIN_LOOP_INTERVAL
    /\ cpc' = "sleep"
    /\ UNCHANGED <<health, srv_status, last_collected_at, last_snapshot_at, unit,
                   queue, hung, ct, futures, timed_out>>

collOther == <<rule_enabled, alerts, resolved_count, streak,
               jobs, executions, handlers, next_fire, pc, due, cur, extVars>>

SetHealth ==
    /\ \E s \in Servers : \E h \in HealthInputs[s] : set_health(s, h)
    /\ UNCHANGED collOther
CollectAll == collect_all /\ UNCHANGED collOther
CollectTenant == collect_tenant /\ UNCHANGED collOther
CollectServer == (\E k \in BOOLEAN : collect_server(k)) /\ UNCHANGED collOther
ConnectFails ==
    (\E s \in Servers, k \in BOOLEAN : connect_fails(s, k)) /\ UNCHANGED collOther
WaitDone == wait_done /\ UNCHANGED collOther
WaitTimeout == wait_timeout /\ UNCHANGED collOther
CollectTenantReturn == collect_tenant_return /\ UNCHANGED collOther
CycleEnd == cycle_end /\ UNCHANGED collOther

CollNext ==
    \/ SetHealth
    \/ CollectAll
    \/ CollectTenant
    \/ CollectServer
    \/ ConnectFails
    \/ WaitDone
    \/ WaitTimeout
    \/ CollectTenantReturn
    \/ CycleEnd

SpecCollector == Init /\ [][CollNext]_vars

(***************************************************************************)
(*                      METRIC COLLECTION: properties                      *)
(***************************************************************************)

\* collect_tenant has just finished the wait loop of tenant tn
TenantCollected(tn) ==
    cpc = "wait" /\ futures = << >> /\ ct <= Len(Tenants) /\ Tenants[ct] = tn

\* C6: whatever the servers of tenant A do (fail, answer slowly, hang, in this
\* or earlier cycles), when the collection of tenant B ends every server of B
\* that was due and answers has its snapshot of this cycle.
C6_TenantBCollectedDespiteTenantA ==
    \A s \in Servers :
       (/\ TenantOf[s] = "B"
        /\ TenantCollected("B")
        /\ unit[s] \notin {"none", "lost"}
        /\ health[s] = "ok") => last_snapshot_at[s] = now

\* C10: a server whose collection unit exceeded the wait timeout ends the
\* cycle with status offline or error.
C10_TimedOutUnitRecordedAsFailure ==
    [][(cpc = "collect" /\ cpc' = "sleep") =>
          \A s \in timed_out : srv_status[s] \in {"offline", "error"}]_vars

\* a collection cycle is under way (the units and the clock are this cycle's)
InCycle == cpc # "sleep"

\* the unit of server s has run to its end in this cycle
UnitEnded(s) == unit[s] \in {"done", "lost"}

\* C12: a server whose credentials could not be decrypted in this cycle has no
\* snapshot of this cycle and, its status write accepted, has status error;
\* every other server whose unit succeeded in the cycle has its snapshot.
C12_DecryptFailureIsLocal ==
    InCycle =>
       \A s \in Servers :
          (health[s] = "decrypt_fail" /\ UnitEnded(s)) =>
             /\ last_snapshot_at[s] # now
             /\ unit[s] = "done" => srv_status[s] = "error"
             /\ \A s2 \in Servers \ {s} :
                   (health[s2] = "ok" /\ unit[s2] = "done") => last_snapshot_at[s2] = now

\* a1, collected before, fails to decrypt in a later cycle and is in error,
\* while a2 of the same tenant and cycle has its new snapshot
C12_Witness ==
    /\ InCycle
    /\ health["a1"] = "decrypt_fail" /\ unit["a1"] = "done"
    /\ srv_status["a1"] = "error"
    /\ last_snapshot_at["a1"] # None /\ last_snapshot_at["a1"] < now
    /\ health["a2"] = "ok" /\ unit["a2"] = "done" /\ last_snapshot_at["a2"] = now

\* the unit of s left no new snapshot and no changed last_collected_at
NothingCollected(s) == last_snapshot_at[s] # now /\ last_collected_at[s] # now

\* C13: after a collection attempt on a server its status tells the outcome:
\* online, with the snapshot committed, when the whole unit succeeded; offline
\* when the connection failed; error when decryption, probing (conn.cursor(),
\* conn.close()) or persisting failed; a unit that did not end online leaves
\* no new snapshot and no changed last_collected_at.  (Where the unit failed
\* and the store then rejected the status write itself, only the second half
\* is asked for.)
C13_StatusTellsOutcome ==
    InCycle =>
       \A s \in Servers :
          UnitEnded(s) =>
             CASE health[s] = "ok" /\ unit[s] = "done" ->
                     srv_status[s] = "online" /\ last_snapshot_at[s] = now
               [] health[s] = "ok" /\ unit[s] = "lost" ->
                     srv_status[s] = "error" /\ NothingCollected(s)
               [] health[s] = "close_fail" ->
                     srv_status[s] = "error" /\ NothingCollected(s)
               [] health[s] = "connect_fail" /\ unit[s] = "done" ->
                     srv_status[s] = "offline" /\ NothingCollected(s)
               [] health[s] \in {"decrypt_fail", "probe_fail"} /\ unit[s] = "done" ->
                     srv_status[s] = "error" /\ NothingCollected(s)
               [] OTHER -> NothingCollected(s)

(***************************************************************************)
(*     SCHEDULER CYCLE: _check_jobs, _process_tenant_jobs, _execute_job    *)
(***************************************************************************)

HandlerOutcomes == {"returns", "raises", "times_out"}
TenantOutcomes == {"ok", "session_fails", "query_fails"}

\* JobExecutor.execute: (success, error_message) for a job of type ty and
\* configuration cfg whose handler, if there is one, ends with outcome h.
\* The timeout is read with job.configuration.get(...) before the handler is
\* looked up; a configuration that is no JSON object has no get.
Execute(ty, cfg, registered, h) ==
    IF cfg # "dict"
    THEN [success |-> FALSE, error |-> "attribute_error", ran |-> FALSE, raised |-> TRUE]
    ELSE IF ty \notin registered
    THEN [success |-> FALSE, error |-> "no_handler", ran |-> FALSE, raised |-> FALSE]
    ELSE CASE h = "returns"   ->
                [success |-> TRUE, error |-> "none", ran |-> TRUE, raised |-> FALSE]
           [] h = "raises"    ->
                [success |-> FALSE, error |-> "handler_error", ran |-> TRUE, raised |-> FALSE]
           [] h = "times_out" ->
                [success |-> FALSE, error |-> "timeout", ran |-> TRUE, raised |-> FALSE]

\* _execute_job after create_execution: the row it leaves and whether an
\* exception leaves the function; w1, u, w2, u2 tell whether the commit of
\* complete_execution, of update_job_after_execution, and of the two calls in
\* the except block are accepted by the store
ExecuteJobOutcome(res, w1, u, w2, u2) ==
    LET written == [status |-> IF res.success THEN "success" ELSE "failed",
                    error_message |-> res.error]
        running == [status |-> "running", error_message |-> "none"]
        \* the except block writes str(e)
        failed  == [status |-> "failed",
                    error_message |-> IF res.raised THEN res.error ELSE "store_error"]
    IN  IF ~res.raised /\ w1 /\ u THEN [row |-> written, raised |-> FALSE]
        ELSE IF w2 THEN [row |-> failed, raised |-> ~u2]
        ELSE [row |-> IF ~res.raised /\ w1 THEN written ELSE running, raised |-> TRUE]

\* mutant: a tenant's failure ends the cycle
AbortCycle(ts) == << >>

\* _check_jobs: "except Exception: logger.error(...)" inside the tenant loop,
\* the loop goes on with the next tenant
AfterTenantFailure(ts) == Tail(ts)

\* _process_tenant_jobs: "except Exception: logger.error(...)" inside the job
\* loop, the loop goes on with the next job
AfterJobException(q) == Tail(q)

\* JobExecutor.register_handler
cyc_register_handler(ty) ==
    /\ cyc_pc = "idle"
    /\ ty \notin cyc_handlers
    /\ cyc_handlers' = cyc_handlers \cup {ty}
    /\ UNCHANGED <<cyc_pc, cyc_tenants, cyc_due, cyc_shutdown, cyc_rows,
                   cyc_attempted, cyc_returned, cyc_executed, cyc_ran, cyc_fault>>

\* JobSchedulerWorker.stop: self._shutdown_event.set()
cyc_stop ==
    /\ ~cyc_shutdown
    /\ cyc_shutdown' = TRUE
    /\ UNCHANGED <<cyc_pc, cyc_tenants, cyc_due, cyc_handlers, cyc_rows,
                   cyc_attempted, cyc_returned, cyc_executed, cyc_ran, cyc_fault>>

\* _check_jobs begins: Tenant.query.filter_by(status='active').all()
cyc_check_jobs ==
    /\ cyc_pc = "idle"
    /\ ~cyc_shutdown
    /\ cyc_pc' = "tenants"
    /\ cyc_tenants' = CycTenants
    /\ cyc_rows' = [j \in CycJobs |-> NoRow]
    /\ cyc_attempted' = {}
    /\ cyc_returned' = {}
    /\ cyc_executed' = {}
    /\ cyc_ran' = {}
    /\ cyc_fault' = {}
    /\ UNCHANGED <<cyc_due, cyc_handlers, cyc_shutdown>>

\* _check_jobs loop body: _process_tenant_jobs(tenant) up to get_due_jobs;
\* o tells whether get_session or get_due_jobs raises
cyc_process_tenant(o) ==
    /\ cyc_pc = "tenants" /\ cyc_tenants # << >> /\ ~cyc_shutdown
    /\ LET t == Head(cyc_tenants)
           due_jobs == SelectSeq(CycJobOrder, LAMBDA j : CycTenantOf[j] = t)
       IN /\ cyc_attempted' = cyc_attempted \cup {t}
          /\ IF o = "ok"
             THEN /\ cyc_due' = due_jobs
                  /\ cyc_returned' = cyc_returned \cup {due_jobs[i] : i \in DOMAIN due_jobs}
                  /\ cyc_tenants' = Tail(cyc_tenants)
                  /\ cyc_pc' = "jobs"
             ELSE /\ cyc_tenants' = AfterTenantFailure(cyc_tenants)
                  /\ UNCHANGED <<cyc_due, cyc_returned, cyc_pc>>
    /\ UNCHANGED <<cyc_handlers, cyc_shutdown, cyc_rows, cyc_executed, cyc_ran, cyc_fault>>

\* _process_tenant_jobs loop body: _execute_job(job) as a whole;
\* c tells whether create_execution is accepted by the store
cyc_execute_job(c, h, w1, u, w2, u2) ==
    /\ cyc_pc = "jobs" /\ cyc_due # << >> /\ ~cyc_shutdown
    /\ LET j == Head(cyc_due)
           res == Execute(CycJobType[j], CycJobConfig[j], cyc_handlers, h)
           out == ExecuteJobOutcome(res, w1, u, w2, u2)
       IN /\ cyc_executed' = cyc_executed \cup {j}
          /\ IF c
             THEN /\ cyc_rows' = [cyc_rows EXCEPT ![j] = out.row]
                  /\ cyc_ran' = IF res.ran THEN cyc_ran \cup {j} ELSE cyc_ran
                  /\ cyc_fault' = IF (~res.raised /\ w1 /\ u) \/ (res.raised /\ w2 /\ u2)
                                   THEN cyc_fault ELSE cyc_fault \cup {j}
                  /\ cyc_due' = IF out.raised THEN AfterJobException(cyc_due)
                                ELSE Tail(cyc_due)
             ELSE /\ cyc_due' = AfterJobException(cyc_due)
                  /\ cyc_fault' = cyc_fault \cup {j}
                  /\ UNCHANGED <<cyc_rows, cyc_ran>>
    /\ UNCHANGED <<cyc_pc, cyc_tenants, cyc_handlers, cyc_shutdown,
                   cyc_attempted, cyc_returned>>

\* _process_tenant_jobs: the job loop ends (exhausted or shutdown), finally
\* session.remove()
cyc_tenant_done ==
    /\ cyc_pc = "jobs"
    /\ cyc_due = << >> \/ cyc_shutdown
    /\ cyc_due' = << >>
    /\ cyc_pc' = "tenants"
    /\ UNCHANGED <<cyc_tenants, cyc_handlers, cyc_shutdown, cyc_rows,
                   cyc_attempted, cyc_returned, cyc_executed, cyc_ran, cyc_fault>>

\* _check_jobs: the tenant loop ends (exhausted or shutdown)
cyc_done ==
    /\ cyc_pc = "tenants"
    /\ cyc_tenants = << >> \/ cyc_shutdown
    /\ cyc_tenants' = << >>
    /\ cyc_pc' = "done"
    /\ UNCHANGED <<cyc_due, cyc_handlers, cyc_shutdown, cyc_rows,
                   cyc_attempted, cyc_returned, cyc_executed, cyc_ran, cyc_fault>>

\* the interval trigger waits for its next fire time
cyc_wait ==
    /\ cyc_pc = "done"
    /\ cyc_pc' = "idle"
    /\ UNCHANGED <<cyc_tenants, cyc_due, cyc_handlers, cyc_shutdown, cyc_rows,
                   cyc_attempted, cyc_returned, cyc_executed, cyc_ran, cyc_fault>>

cycOther == <<alertVars, schedVars, collVars, chainVars, cleanVars, laterVars>>

CycRegisterHandler ==
    (\E ty \in CycHandlerTypes : cyc_register_handler(ty)) /\ UNCHANGED cycOther
CycStop == cyc_stop /\ UNCHANGED cycOther
CycCheckJobs == cyc_check_jobs /\ UNCHANGED cycOther
CycProcessTenant ==
    (\E o \in TenantOutcomes : cyc_process_tenant(o)) /\ UNCHANGED cycOther
CycExecuteJob ==
    /\ \E c, w1, u, w2, u2 \in BOOLEAN : \E h \in HandlerOutcomes :
          cyc_execute_job(c, h, w1, u, w2, u2)
    /\ UNCHANGED cycOther
CycTenantDone == cyc_tenant_done /\ UNCHANGED cycOther
CycDone == cyc_done /\ UNCHANGED cycOther
CycWait == cyc_wait /\ UNCHANGED cycOther

CycleNext ==
    \/ CycRegisterHandler
    \/ CycStop
    \/ CycCheckJobs
    \/ CycProcessTenant
    \/ CycExecuteJob
    \/ CycTenantDone
    \/ CycDone
    \/ CycWait

SpecCycle == Init /\ [][CycleNext]_vars

(***************************************************************************)
(*                      SCHEDULER CYCLE: properties                        *)
(***************************************************************************)

CycTenantSet == {CycTenants[i] : i \in DOMAIN CycTenants}

C20_NoHandlerIsRecordedFailure ==
    cyc_pc # "idle" =>
        \A j \in cyc_executed :
            (CycJobType[j] \notin cyc_handlers /\ cyc_rows[j] # NoRow) =>
                /\ j \notin cyc_ran
                /\ j \notin cyc_fault =>
                      cyc_rows[j] = [status |-> "failed", error_message |-> "no_handler"]
                /\ (cyc_pc = "done" /\ ~cyc_shutdown) => cyc_returned \subseteq cyc_executed

(***************************************************************************)
(*        BLOCKING CHAINS: AnalyticsService.get_blocking_chains            *)
(***************************************************************************)

\* a collection stores one more running_query_snapshots row with the
\* generation's collected_at; results returned before belong to fewer rows
store_row(row) ==
    /\ Len(rq_generation) < MaxRows
    /\ rq_generation' = InsertRow(rq_generation, row)
    /\ bc_result' = NoResult
    /\ rq_empty_poll' = FALSE

\* a later collection that fetched a request stores its first row under a
\* newer collected_at: the rows with that value are the latest generation
\* from then on
next_generation(row) ==
    /\ rq_generation # << >>
    /\ rq_generation' = <<row>>
    /\ bc_result' = NoResult
    /\ rq_empty_poll' = FALSE

\* a later collection whose SELECT fetched no request: _collect_running_queries
\* adds no row and moves last_query_collected_at only, so max(collected_at)
\* over the server's rows stays what it was
empty_poll ==
    /\ ~rq_empty_poll
    /\ rq_empty_poll' = TRUE
    /\ bc_result' = NoResult
    /\ UNCHANGED rq_generation

\* get_blocking_chains(server_id): reads the latest generation with a query
\* that has no ORDER BY, builds the chains and counts; writes nothing
get_blocking_chains(queries) ==
    /\ queries \in RowOrders(rq_generation)
    /\ bc_result' = blocking_chains(queries)
    /\ UNCHANGED <<rq_generation, rq_empty_poll>>

chainOther == <<alertVars, schedVars, collVars, cycleVars, cleanVars, laterVars>>

StoreRow == (\E row \in RowInputs : store_row(row)) /\ UNCHANGED chainOther
NextGeneration == (\E row \in RowInputs : next_generation(row)) /\ UNCHANGED chainOther
EmptyPoll == empty_poll /\ UNCHANGED chainOther
GetBlockingChains ==
    /\ \E queries \in RowOrders(rq_generation) : get_blocking_chains(queries)
    /\ UNCHANGED chainOther

ChainsNext ==
    \/ StoreRow
    \/ NextGeneration
    \/ EmptyPoll
    \/ GetBlockingChains

SpecChains == Init /\ [][ChainsNext]_vars

(***************************************************************************)
(*                      BLOCKING CHAINS: properties                        *)
(***************************************************************************)

Built == bc_result # NoResult /\ ~bc_result.raised

GenRows == SeqRange(rq_generation)

\* sessions that some row names as its blocker and that have a row without
\* a blocker
RootSessions ==
    {s \in SessionIds :
        /\ \E q \in GenRows : q.blocking_session_id = s
        /\ \E q \in GenRows : q.session_id = s /\ ~Truthy(q.blocking_session_id)}

BlockedBy(s) == {q.session_id : q \in {r \in GenRows : r.blocking_session_id = s}}

\* the sessions that have a node in a tree, the root included
RECURSIVE TreeSessions(_)
TreeSessions(node) ==
    IF node = NoTree THEN {}
    ELSE {node.session_id}
         \cup UNION {TreeSessions(node.blocked[i]) : i \in DOMAIN node.blocked}

\* below every node hang exactly the sessions blocked by it, those that are
\* already on the path from the root left out
RECURSIVE ChildrenAreBlocked(_, _)
ChildrenAreBlocked(node, path) ==
    LET kids == {i \in DOMAIN node.blocked : node.blocked[i] # NoTree}
        here == path \cup {node.session_id}
    IN  /\ {node.blocked[i].session_id : i \in kids} = BlockedBy(node.session_id) \ here
        /\ \A i \in kids : ChildrenAreBlocked(node.blocked[i], here)

\* C15: the forest has exactly one tree per root blocker, the children of
\* every node are exactly the sessions blocked by it, and a session whose rows
\* all name a blocker without a row is in no tree; the builder raises nothing.
C15_ForestOfRootBlockers ==
    bc_result # NoResult =>
        LET chains == bc_result.chains IN
        /\ ~bc_result.raised
        /\ {chains[i].session_id : i \in DOMAIN chains} = RootSessions
        /\ \A i, k \in DOMAIN chains :
              chains[i].session_id = chains[k].session_id => i = k
        /\ \A i \in DOMAIN chains : ChildrenAreBlocked(chains[i], {})
        /\ \A s \in SessionIds :
              (\A q \in GenRows :
                  q.session_id = s =>
                     /\ Truthy(q.blocking_session_id)
                     /\ q.blocking_session_id \notin {r.session_id : r \in GenRows})
              => \A i \in DOMAIN chains : s \notin TreeSessions(chains[i])

\* no path from a root meets a session id twice, and a node has a cut entry
\* exactly when a session blocked by it is already on the path
RECURSIVE CutOnRepeat(_, _)
CutOnRepeat(node, path) ==
    LET kids == {i \in DOMAIN node.blocked : node.blocked[i] # NoTree}
        here == path \cup {node.session_id}
    IN  /\ node.session_id \notin path
        /\ (\E i \in DOMAIN node.blocked : node.blocked[i] = NoTree)
              <=> (BlockedBy(node.session_id) \cap here # {})
        /\ \A i \in kids : CutOnRepeat(node.blocked[i], here)

RECURSIVE HasCut(_)
HasCut(node) ==
    /\ node # NoTree
    /\ \E i \in DOMAIN node.blocked :
          node.blocked[i] = NoTree \/ HasCut(node.blocked[i])

\* C16: the builder returns for every generation without running out of
\* call depth; a branch ends where a session id comes up again on its path;
\* when every row is blocked there is no root and total_blocked_sessions is 0.
C16_TerminatesAndCutsCycles ==
    bc_result # NoResult =>
        /\ ~bc_result.raised
        /\ \A i \in DOMAIN bc_result.chains : CutOnRepeat(bc_result.chains[i], {})
        /\ (\A q \in GenRows : Truthy(q.blocking_session_id)) =>
              /\ bc_result.chains = << >>
              /\ bc_result.total_blocked_sessions = 0

C16_Witness ==
    /\ Built
    /\ \E i \in DOMAIN bc_result.chains : HasCut(bc_result.chains[i])

\* the nodes below a node that are present in the returned tree
RECURSIVE Descendants(_)
Descendants(node) ==
    SeqSum([i \in DOMAIN node.blocked |->
               IF node.blocked[i] = NoTree THEN 0
               ELSE 1 + Descendants(node.blocked[i])])

\* C17: total_blocked_sessions is the number of blocked sessions that are
\* present below the roots of the returned trees; a branch that was cut
\* adds nothing.
C17_TotalCountsPresentDescendants ==
    Built =>
        bc_result.total_blocked_sessions =
            SeqSum([i \in DOMAIN bc_result.chains |-> Descendants(bc_result.chains[i])])

\* C18: a call of get_blocking_chains leaves the stored rows as they are, and
\* a call on the generation of the call before returns what that call
\* returned: the same trees in the same order and the same total.
C18_SameGenerationSameTrees ==
    [][GetBlockingChains =>
          /\ rq_generation' = rq_generation
          /\ bc_result # NoResult => bc_result' = bc_result]_vars

\* C23: get_blocking_chains reflects the server's most recent poll: when that
\* poll fetched no in-flight request, and so stored no row, the answer has no
\* chains and total_blocked_sessions = 0.
C23_EmptyPollEmptyChains ==
    (rq_empty_poll /\ Built) =>
        /\ bc_result.chains = << >>
        /\ bc_result.total_blocked_sessions = 0

(***************************************************************************)
(*      RETENTION CLEANUP: MetricsCleanup.cleanup_tenant and its loop      *)
(***************************************************************************)

\* the day of the rows that match "collected_at < cutoff"
OldDay == CHOOSE d \in Days : d < Cutoff

\* the number of rows of a table that match "collected_at < cutoff"
OldRows(tb) == tb[OldDay]

\* the loop left after a full batch as well
LoopStopsAtFullBatch(deleted) == deleted <= BATCH_SIZE

\* "if deleted < self.BATCH_SIZE: break"
LoopStops(deleted) == deleted < BATCH_SIZE

\* days pass between two runs: rows have been collected and have aged
store_tables(c) ==
    /\ cl_pc = "idle"
    /\ tables' = c
    /\ UNCHANGED <<cl_running, cl_pc, cl_tbl, cl_total, cl_before, cl_fetches,
                   cl_passes, cl_short, cl_errors, cl_stopped>>

\* run(): the worker sleeps until CLEANUP_INTERVAL_HOURS have passed; what
\* was observed of the last run is dropped
cleanup_sleep ==
    /\ cl_pc = "done"
    /\ cl_pc' = "idle"
    /\ cl_tbl' = 1
    /\ cl_total' = [t \in Tables |-> 0]
    /\ cl_before' = [t \in Tables |-> EmptyTable]
    /\ cl_fetches' = [t \in Tables |-> 0]
    /\ cl_passes' = [t \in Tables |-> 0]
    /\ cl_short' = {}
    /\ cl_errors' = {}
    /\ cl_stopped' = FALSE
    /\ UNCHANGED <<tables, cl_running>>

\* MetricsCleanup.shutdown (SIGTERM / SIGINT handler)
shutdown ==
    /\ cl_running
    /\ cl_running' = FALSE
    /\ cl_stopped' = TRUE
    /\ UNCHANGED <<tables, cl_pc, cl_tbl, cl_total, cl_before, cl_fetches,
                   cl_passes, cl_short, cl_errors>>

\* the worker process is started again: MetricsCleanup.__init__
init_worker ==
    /\ ~cl_running
    /\ cl_pc = "idle"
    /\ cl_running' = TRUE
    /\ UNCHANGED <<tables, cl_pc, cl_tbl, cl_total, cl_before, cl_fetches,
                   cl_passes, cl_short, cl_errors, cl_stopped>>

\* run_cleanup_all calls cleanup_tenant for the tenant; ok = get_session and
\* get_retention_days returned. When they raise, cleanup_tenant logs and ends.
cleanup_tenant(ok) ==
    /\ cl_pc = "idle"
    /\ cl_running
    /\ cl_before' = tables
    /\ cl_tbl' = 1
    /\ cl_total' = [t \in Tables |-> 0]
    /\ cl_fetches' = [t \in Tables |-> 0]
    /\ cl_passes' = [t \in Tables |-> 0]
    /\ cl_short' = {}
    /\ cl_stopped' = FALSE
    /\ cl_errors' = IF ok THEN {} ELSE Tables
    /\ cl_pc' = IF ok THEN "loop" ELSE "done"
    /\ UNCHANGED <<tables, cl_running>>

\* _delete_in_batches returns; cleanup_tenant calls it for the next table or,
\* after the last one, logs and removes its session
LoopReturns ==
    IF cl_tbl < Len(TableOrder)
    THEN cl_tbl' = cl_tbl + 1 /\ cl_pc' = "loop"
    ELSE cl_tbl' = cl_tbl /\ cl_pc' = "done"

\* one pass of "while self.running" in _delete_in_batches.  err tells where
\* the store raised: "none", "fetch" (the id query), "commit" (the delete or
\* its commit, rolled back).
delete_in_batches(err) ==
    /\ cl_pc = "loop"
    /\ LET t == TableOrder[cl_tbl]
           n == IF OldRows(tables[t]) < BATCH_SIZE THEN OldRows(tables[t])
                ELSE BATCH_SIZE
           deleted == n
           fetched == [cl_fetches EXCEPT ![t] = @ + 1]
           short == IF n < BATCH_SIZE THEN cl_short \cup {t} ELSE cl_short
       IN  IF ~cl_running
           THEN /\ LoopReturns
                /\ UNCHANGED <<tables, cl_total, cl_fetches, cl_passes,
                               cl_short, cl_errors>>
           ELSE IF err = "fetch"
           THEN /\ cl_errors' = cl_errors \cup {t}
                /\ LoopReturns
                /\ UNCHANGED <<tables, cl_total, cl_fetches, cl_passes, cl_short>>
           ELSE IF n = 0
           THEN /\ cl_fetches' = fetched
                /\ cl_short' = short
                /\ LoopReturns
                /\ UNCHANGED <<tables, cl_total, cl_passes, cl_errors>>
           ELSE IF err = "commit"
           THEN /\ cl_fetches' = fetched
                /\ cl_short' = short
                /\ cl_errors' = cl_errors \cup {t}
                /\ LoopReturns
                /\ UNCHANGED <<tables, cl_total, cl_passes>>
           ELSE /\ cl_fetches' = fetched
                /\ cl_short' = short
                /\ tables' = [tables EXCEPT ![t][OldDay] = @ - deleted]
                /\ cl_passes' = [cl_passes EXCEPT ![t] = @ + 1]
                /\ cl_total' = [cl_total EXCEPT ![t] = @ + deleted]
                /\ IF LoopStops(deleted) THEN LoopReturns
                   ELSE cl_tbl' = cl_tbl /\ cl_pc' = "loop"
                /\ UNCHANGED cl_errors
    /\ UNCHANGED <<cl_running, cl_before, cl_stopped>>

cleanOther == <<alertVars, schedVars, collVars, cycleVars, chainVars, laterVars>>

StoreTables ==
    (\E c \in [Tables -> TableInputs] : store_tables(c)) /\ UNCHANGED cleanOther
Shutdown == shutdown /\ UNCHANGED cleanOther
InitWorker == init_worker /\ UNCHANGED cleanOther
CleanupSleep == cleanup_sleep /\ UNCHANGED cleanOther
CleanupTenant == (\E ok \in BOOLEAN : cleanup_tenant(ok)) /\ UNCHANGED cleanOther
DeleteInBatches ==
    /\ \E err \in {"none", "fetch", "commit"} : delete_in_batches(err)
    /\ UNCHANGED cleanOther

CleanupNext ==
    \/ StoreTables
    \/ Shutdown
    \/ InitWorker
    \/ CleanupSleep
    \/ CleanupTenant
    \/ DeleteInBatches

\* the worker thread keeps running its loop
SpecCleanup == Init /\ [][CleanupNext]_vars /\ WF_vars(DeleteInBatches)

(***************************************************************************)
(*                     RETENTION CLEANUP: properties                       *)
(***************************************************************************)

\* cleanup_tenant has ended and the loop of table t met neither an exception
\* nor a shutdown
CleanRun(t) == cl_pc = "done" /\ t \notin cl_errors /\ ~cl_stopped

\* C19: the delete loop of every table ends; after a run without error or
\* shutdown the table holds no row older than the cutoff and the loop has
\* returned their number; no id is fetched after a fetch that fell short of
\* BATCH_SIZE; a table with exactly BATCH_SIZE old rows is emptied of them by
\* exactly one delete.
C19_RetentionLoop ==
    /\ [](\A t \in Tables :
             CleanRun(t) =>
                /\ OldRows(tables[t]) = 0
                /\ cl_total[t] = OldRows(cl_before[t])
                /\ OldRows(cl_before[t]) = BATCH_SIZE => cl_passes[t] = 1)
    /\ [][\A t \in Tables :
             (t \in cl_short /\ t \in cl_short') => cl_fetches'[t] = cl_fetches[t]]_vars
    /\ (cl_pc = "loop" ~> cl_pc = "done")

C19_Witness ==
    /\ CleanRun("metrics")
    /\ OldRows(cl_before["metrics"]) = BATCH_SIZE
    /\ cl_passes["metrics"] = 1 /\ cl_fetches["metrics"] = 2
    /\ OldRows(tables["metrics"]) = 0

(***************************************************************************)
(*   TENANT RESOLUTION: TenantMiddleware.resolve_tenant and the tenants    *)
(*   API (app/middleware/tenant.py, app/api/tenants.py)                    *)
(***************************************************************************)

\* an error_response of the middleware: nothing is put into g
Reject(code, error) ==
    [code |-> code, error |-> error, g_tenant |-> NoTenant,
     g_session |-> FALSE, pass |-> FALSE]

\* Tenant.query.filter_by(slug=slug).first(): the slug is compared as given
tenant_lookup(slug) ==
    IF slug \in TnSlugs /\ tn_status[slug] # "absent" THEN slug ELSE NoTenant

NeverSuspended(status) == FALSE

\* tenant.status == 'suspended'
is_suspended(status) == status = "suspended"

\* resolve_tenant, the before_request hook.  db_ok: the system store answers
\* the lookup; sess_ok: tenant_manager.get_session returns.  An exception in
\* the hook ends the request with a 500 answer.
resolve_tenant(path, slug, db_ok, sess_ok) ==
    IF is_excluded(path)
    THEN [code |-> 0, error |-> "", g_tenant |-> NoTenant,
          g_session |-> FALSE, pass |-> TRUE]
    ELSE IF slug = NoHeader \/ slug = ""
    THEN Reject(400, "MISSING_TENANT")
    ELSE IF ~db_ok
    THEN Reject(500, "exception")
    ELSE IF tenant_lookup(slug) = NoTenant
    THEN Reject(404, "TENANT_NOT_FOUND")
    ELSE IF is_suspended(tn_status[slug])
    THEN Reject(403, "TENANT_SUSPENDED")
    ELSE IF ~sess_ok
    THEN [code |-> 500, error |-> "exception", g_tenant |-> slug,
          g_session |-> FALSE, pass |-> FALSE]
    ELSE [code |-> 0, error |-> "", g_tenant |-> slug,
          g_session |-> TRUE, pass |-> TRUE]

\* what the request leaves behind: the hook's answer, or the handler's
Answered(path, slug, db_ok, r, code, error) ==
    [path |-> path, header |-> slug, answered |-> db_ok,
     code |-> IF r.pass THEN code ELSE r.code,
     error |-> IF r.pass THEN error ELSE r.error,
     g_tenant |-> r.g_tenant, g_session |-> r.g_session, handler |-> r.pass]

\* a request to a route whose handler leaves the tenants table alone
handle_request(path, slug, db_ok, sess_ok) ==
    LET r == resolve_tenant(path, slug, db_ok, sess_ok)
    IN  /\ tn_req' = Answered(path, slug, db_ok, r, 200, "")
        /\ UNCHANGED tn_status

\* POST /api/tenants (create_tenant); the path is excluded
create_tenant(data_slug, header, provision_ok) ==
    LET path == <<"api", "tenants">>
        r    == resolve_tenant(path, header, TRUE, TRUE)
        slug == Lower(data_slug)
    IN  IF ~validate_slug(slug)
        THEN /\ tn_req' = Answered(path, header, TRUE, r, 400, "VALIDATION_ERROR")
             /\ UNCHANGED tn_status
        ELSE IF tenant_lookup(slug) # NoTenant
        THEN /\ tn_req' = Answered(path, header, TRUE, r, 409, "CONFLICT")
             /\ UNCHANGED tn_status
        ELSE IF ~provision_ok
        THEN /\ tn_req' = Answered(path, header, TRUE, r, 500, "PROVISIONING_ERROR")
             /\ UNCHANGED tn_status
        ELSE /\ tn_req' = Answered(path, header, TRUE, r, 201, "")
             /\ tn_status' = [tn_status EXCEPT ![slug] = "active"]

\* DELETE /api/tenants/<slug> (delete_tenant): a soft delete
delete_tenant(slug, header) ==
    LET path == <<"api", "tenants", slug>>
        r    == resolve_tenant(path, header, TRUE, TRUE)
    IN  IF tenant_lookup(slug) = NoTenant
        THEN /\ tn_req' = Answered(path, header, TRUE, r, 404, "NOT_FOUND")
             /\ UNCHANGED tn_status
        ELSE /\ tn_req' = Answered(path, header, TRUE, r, 200, "")
             /\ tn_status' = [tn_status EXCEPT ![slug] = "suspended"]

tenantOther == <<alertVars, schedVars, collVars, cycleVars, chainVars, cleanVars,
                 pollVars, workerVars, submitVars, probeVars, snapVars>>

HandleRequest ==
    /\ \E path \in PathInputs, slug \in HeaderInputs, db_ok \in BOOLEAN,
          sess_ok \in BOOLEAN : handle_request(path, slug, db_ok, sess_ok)
    /\ UNCHANGED tenantOther
CreateTenant ==
    /\ \E s \in CreateInputs, h \in HeaderInputs, ok \in BOOLEAN :
          create_tenant(s, h, ok)
    /\ UNCHANGED tenantOther
DeleteTenant ==
    /\ \E s \in TnSlugs \cup {"ghost"}, h \in HeaderInputs : delete_tenant(s, h)
    /\ UNCHANGED tenantOther

TenantNext ==
    \/ HandleRequest
    \/ CreateTenant
    \/ DeleteTenant

SpecTenant == Init /\ [][TenantNext]_vars

(***************************************************************************)
(*                     TENANT RESOLUTION: properties                       *)
(***************************************************************************)

\* the last request went to a path that is not excluded
TenantScoped == tn_req.path # << >> /\ ~is_excluded(tn_req.path)

\* the header of the last request names a tenant that is not suspended
NamesLiveTenant ==
    /\ tn_req.header \in TnSlugs
    /\ tn_status[tn_req.header] \notin {"absent", "suspended"}

\* C21: a request to a path that is not excluded reaches its handler only if
\* its X-Tenant-Slug header names an existing tenant that is not suspended, and
\* then g.tenant and g.tenant_session are set; every other request is rejected
\* before the handler: 400 MISSING_TENANT without a slug in the header, and,
\* when the system store answers the lookup, 404 TENANT_NOT_FOUND for a slug no
\* tenant has and 403 TENANT_SUSPENDED for a suspended tenant.
C21_TenantContextOrRejected ==
    TenantScoped =>
        /\ tn_req.handler =>
              /\ NamesLiveTenant
              /\ tn_req.g_tenant = tn_req.header
              /\ tn_req.g_session
        /\ ~NamesLiveTenant => ~tn_req.handler /\ tn_req.code \in {400, 403, 404, 500}
        /\ tn_req.header \in {NoHeader, ""} =>
              tn_req.code = 400 /\ tn_req.error = "MISSING_TENANT"
        /\ (/\ tn_req.answered
            /\ tn_req.header \notin {NoHeader, ""}
            /\ tenant_lookup(tn_req.header) = NoTenant) =>
              tn_req.code = 404 /\ tn_req.error = "TENANT_NOT_FOUND"
        /\ (/\ tn_req.answered
            /\ tenant_lookup(tn_req.header) # NoTenant
            /\ tn_status[tn_req.header] = "suspended") =>
              tn_req.code = 403 /\ tn_req.error = "TENANT_SUSPENDED"
        /\ tn_req.code = 500 => ~tn_req.answered \/ NamesLiveTenant

C21_Witness ==
    /\ TenantScoped
    /\ tn_req.handler /\ tn_req.g_tenant = "acme" /\ tn_req.g_session
    /\ tn_status["beta"] = "suspended"

(***************************************************************************)
(*   QUERY COLLECTION: _should_collect_queries, _collect_running_queries   *)
(*   (workers/metric_collector.py) and get_blocking_chains on its rows     *)
(***************************************************************************)

\* _should_collect_queries
should_collect_queries(last_query_collected_at, t) ==
    \/ last_query_collected_at = None
    \/ t - last_query_collected_at >= QueryCollectionInterval

\* every row gets a time of its own
StampPerRow(collected_at, i) == collected_at + i

\* collected_at of the i-th RunningQuerySnapshot of a poll: the one value
\* read from the clock before the SELECT
RowStamp(collected_at, i) == collected_at

\* the RunningQuerySnapshot rows built from the fetched requests: the SELECT
\* list has no blocking_session_id and the constructor is given none, so the
\* column is NULL
snapshot_rows(fetched, collected_at) ==
    [i \in DOMAIN fetched |->
        [collected_at |-> RowStamp(collected_at, i),
         session_id |-> fetched[i].session_id,
         blocking_session_id |-> None]]

\* the part of collect_server that follows the metric probes, for a config
\* with query_collection_enabled: the poll when it is due, then the commit.
\* fetch_ok: cursor.execute / fetchall return; commit_ok: the store takes the
\* commit.  An exception of the poll is swallowed and leaves no row.
collect_running_queries(fetched, fetch_ok, commit_ok) ==
    /\ pq_pc = "collect"
    /\ Len(pq_polls) < MaxPolls
    /\ pq_pc' = "sleep"
    /\ pq_result' = NoAnswer
    /\ UNCHANGED pq_now
    /\ IF should_collect_queries(pq_last, pq_now)
       THEN LET collected_at == pq_now
                rows == IF fetch_ok THEN snapshot_rows(fetched, collected_at)
                        ELSE << >>
            IN  /\ pq_rows' = IF commit_ok THEN pq_rows \o rows ELSE pq_rows
                /\ pq_last' = IF commit_ok /\ fetch_ok THEN collected_at ELSE pq_last
                /\ pq_polls' = Append(pq_polls,
                                  [at |-> collected_at,
                                   fetched |-> IF fetch_ok THEN fetched ELSE << >>,
                                   rows |-> rows,
                                   stored |-> fetch_ok /\ commit_ok])
       ELSE UNCHANGED <<pq_rows, pq_last, pq_polls>>

\* the collector comes back to the server after its wait
poll_sleep(dt) ==
    /\ pq_pc = "sleep"
    /\ pq_now + dt <= MaxPollTime
    /\ pq_now' = pq_now + dt
    /\ pq_pc' = "collect"
    /\ UNCHANGED <<pq_rows, pq_last, pq_polls, pq_result>>

\* max(collected_at) over the server's rows, None without rows
latest_time(rows) ==
    IF rows = << >> THEN None
    ELSE LET ts == {rows[i].collected_at : i \in DOMAIN rows}
         IN  CHOOSE t \in ts : \A u \in ts : u <= t

\* the rows with collected_at == latest_time, as the builder reads them
latest_queries(rows) ==
    LET is_latest(r) == r.collected_at = latest_time(rows)
        hit == SelectSeq(rows, is_latest)
    IN  [i \in DOMAIN hit |->
            [session_id |-> hit[i].session_id,
             blocking_session_id |-> hit[i].blocking_session_id]]

\* get_blocking_chains(server_id) on the stored rows; the SELECT has no ORDER BY
poll_get_blocking_chains(queries) ==
    /\ queries \in RowOrders(latest_queries(pq_rows))
    /\ pq_result' = [answer |-> blocking_chains(queries),
                     collected_at |-> latest_time(pq_rows)]
    /\ UNCHANGED <<pq_now, pq_pc, pq_rows, pq_last, pq_polls>>

pollOther == <<alertVars, schedVars, collVars, cycleVars, chainVars, cleanVars,
               tenantVars, workerVars, submitVars, probeVars, snapVars>>

CollectRunningQueries ==
    /\ \E fetched \in LiveInputs, fetch_ok \in BOOLEAN, commit_ok \in BOOLEAN :
          collect_running_queries(fetched, fetch_ok, commit_ok)
    /\ UNCHANGED pollOther
PollSleep == (\E dt \in PollSleeps : poll_sleep(dt)) /\ UNCHANGED pollOther
PollGetBlockingChains ==
    /\ \E queries \in RowOrders(latest_queries(pq_rows)) :
          poll_get_blocking_chains(queries)
    /\ UNCHANGED pollOther

PollNext ==
    \/ CollectRunningQueries
    \/ PollSleep
    \/ PollGetBlockingChains

SpecPoll == Init /\ [][PollNext]_vars

(***************************************************************************)
(*                     QUERY COLLECTION: properties                        *)
(***************************************************************************)

LastPoll == pq_polls[Len(pq_polls)]

\* the pairs <<blocked session, blocking session>> among fetched requests
BlockedPairs(fetched) ==
    {<<fetched[i].session_id, fetched[i].blocking_session_id>> :
        i \in {k \in DOMAIN fetched :
                 \E j \in DOMAIN fetched :
                    fetched[j].session_id = fetched[k].blocking_session_id}}

\* C22: after a stored poll that fetched a request blocked by another fetched
\* request, the blocked session's row carries the blocker's session id in
\* blocking_session_id, and get_blocking_chains on that generation returns the
\* blocker as a root with the blocked session as its child.
C22_BlockerStoredAndShown ==
    (pq_polls # << >> /\ LastPoll.stored) =>
        \A pair \in BlockedPairs(LastPoll.fetched) :
            /\ \E i \in DOMAIN pq_rows :
                  /\ pq_rows[i].collected_at = LastPoll.at
                  /\ pq_rows[i].session_id = pair[1]
                  /\ pq_rows[i].blocking_session_id = pair[2]
            /\ pq_result # NoAnswer =>
                  \E c \in DOMAIN pq_result.answer.chains :
                      /\ pq_result.answer.chains[c].session_id = pair[2]
                      /\ \E k \in DOMAIN pq_result.answer.chains[c].blocked :
                            pq_result.answer.chains[c].blocked[k].session_id = pair[1]

\* collected_at values of the rows one poll built
PollStamps(p) == {p.rows[i].collected_at : i \in DOMAIN p.rows}

\* C28: the RunningQuerySnapshot rows written by one poll of the server all
\* carry the collected_at read once at the start of that poll, no two polls of
\* the server share a collected_at value, and after a poll that was stored
\* the config's last_query_collected_at is that value.
C28_OneCollectedAtPerPoll ==
    /\ \A p \in DOMAIN pq_polls : PollStamps(pq_polls[p]) \subseteq {pq_polls[p].at}
    /\ \A p, q \in DOMAIN pq_polls :
          p # q => /\ pq_polls[p].at # pq_polls[q].at
                   /\ PollStamps(pq_polls[p]) \cap PollStamps(pq_polls[q]) = {}
    /\ (pq_polls # << >> /\ LastPoll.stored) => pq_last = LastPoll.at

\* two stored polls of two requests each, the second 30 s after the first
C28_Witness ==
    /\ Len(pq_polls) = 2
    /\ \A p \in 1..2 : pq_polls[p].stored /\ Len(pq_polls[p].rows) = 2
    /\ Len(pq_rows) = 4
    /\ pq_rows[1].collected_at = pq_rows[2].collected_at
    /\ pq_rows[3].collected_at = pq_rows[4].collected_at
    /\ pq_rows[3].collected_at = pq_rows[1].collected_at + QueryCollectionInterval
    /\ pq_last = pq_rows[4].collected_at

(***************************************************************************)
(*   ALERT EVALUATION CYCLE: run_alert_evaluation, evaluate_all_servers    *)
(*   (app/services/alert_evaluator.py)                                     *)
(***************************************************************************)

\* the most consecutive normal readings of a pair that are counted
MaxStreak == 3

\* the order in which the query for the servers returns them
AlertServerOrder == <<"s1", "s2">>

\* AlertEvaluator.__init__: self._resolved_count = {}
EmptyResolvedCount == [p \in Pairs |-> 0]

\* evaluate_all_servers: for each server with a snapshot, evaluate_server on
\* the metrics of its latest snapshot.  st = [alerts, cnt, streak];
\* with: the servers that have a snapshot; snaps: the metrics of the latest
RECURSIVE evaluate_all_servers(_, _, _, _)
evaluate_all_servers(servers, st, with, snaps) ==
    IF servers = << >> THEN st
    ELSE evaluate_all_servers(
             Tail(servers),
             IF Head(servers) \in with
             THEN EvaluatorLoop(RuleOrder, st, Head(servers), snaps[Head(servers)])
             ELSE st,
             with, snaps)

\* run_alert_evaluation(session): builds an AlertEvaluator, calls its
\* evaluate_all_servers and drops it; the evaluator of evaluate_server above
\* is another object and keeps its own _resolved_count
run_alert_evaluation(with, snaps) ==
    LET st == evaluate_all_servers(
                  AlertServerOrder,
                  [alerts |-> alerts, cnt |-> EmptyResolvedCount, streak |-> streak],
                  with, snaps)
    IN /\ Len(st.alerts) <= MaxAlerts
       /\ \A p \in Pairs : st.streak[p] <= MaxStreak
       /\ alerts' = st.alerts
       /\ streak' = st.streak
       /\ UNCHANGED <<rule_enabled, resolved_count>>

RunAlertEvaluation ==
    /\ \E with \in SUBSET ServerIds, snaps \in [ServerIds -> MetricsInputs] :
          \* a server without a snapshot has no metrics to choose
          /\ \A s \in ServerIds \ with : snaps[s] = NoMetrics
          /\ run_alert_evaluation(with, snaps)
    /\ UNCHANGED <<schedVars, collVars, extVars>>

\* alert evaluation driven by run_alert_evaluation, beside the alerts API
AlertCycleNext ==
    \/ RunAlertEvaluation
    \/ AcknowledgeAlert
    \/ ResolveAlert
    \/ UpdateRule

SpecAlertCycle == Init /\ [][AlertCycleNext]_vars

\* C24: driven by run_alert_evaluation once per cycle, a non-resolved Alert
\* is auto-resolved once its pair has had RESOLVE_THRESHOLD (2) consecutive
\* cycles with a normal reading: no non-resolved Alert has seen that many.
C24_ResolvedAfterTwoNormalCycles ==
    \A p \in Pairs :
        streak[p] >= RESOLVE_THRESHOLD => NonResolved(alerts, p[1], p[2]) = {}

(***************************************************************************)
(*   WORKER LIFE CYCLE: JobSchedulerWorker.run_forever, start, stop and    *)
(*   the JobExecution rows of _execute_job across stops and restarts       *)
(***************************************************************************)

\* run_forever begins: start() builds the executor and the scheduler and runs
\* the first _check_jobs itself; the signal handlers are not installed yet
wk_start ==
    /\ wk_proc = "down"
    /\ wk_proc' = "starting"
    /\ UNCHANGED <<wk_pc, wk_rows, wk_cur, wk_outcome>>

\* start() has returned: run_forever installs the handlers of SIGINT and
\* SIGTERM and sleeps; later checks run in the scheduler's thread
wk_run_forever ==
    /\ wk_proc = "starting" /\ wk_pc = "idle"
    /\ wk_proc' = "running"
    /\ UNCHANGED <<wk_pc, wk_rows, wk_cur, wk_outcome>>

\* _execute_job begins for a due job: create_execution commits a row with
\* status running
wk_create_execution ==
    /\ wk_proc \in {"starting", "running"} /\ wk_pc = "idle"
    /\ Len(wk_rows) < MaxWkRows
    /\ wk_rows' = Append(wk_rows, "running")
    /\ wk_cur' = Len(wk_rows) + 1
    /\ wk_pc' = "handler"
    /\ UNCHANGED <<wk_proc, wk_outcome>>

\* self.executor.execute(context) ends: the handler returned, raised, or
\* was given up after its timeout
wk_execute(h) ==
    /\ wk_pc = "handler"
    /\ wk_outcome' = h
    /\ wk_pc' = "result"
    /\ UNCHANGED <<wk_proc, wk_rows, wk_cur>>

\* the rest of _execute_job: complete_execution and update_job_after_execution,
\* and the except block when one of them raises
wk_complete_execution(w1, u, w2, u2) ==
    /\ wk_pc = "result"
    /\ LET res == Execute("policy_execution", "dict", {"policy_execution"}, wk_outcome)
           out == ExecuteJobOutcome(res, w1, u, w2, u2)
       IN  wk_rows' = [wk_rows EXCEPT ![wk_cur] = out.row.status]
    /\ wk_pc' = "idle"
    /\ wk_cur' = 0
    /\ wk_outcome' = NoOutcome
    /\ UNCHANGED wk_proc

\* SIGTERM or SIGINT for a worker whose handlers are installed:
\* signal_handler calls stop(), which waits for the check that is running,
\* and then sys.exit(0)
wk_stop ==
    /\ wk_proc = "running" /\ wk_pc = "idle"
    /\ wk_proc' = "down"
    /\ UNCHANGED <<wk_pc, wk_rows, wk_cur, wk_outcome>>

\* the process ends without running stop(): SIGTERM or SIGINT while start()
\* is still in its first check, SIGKILL after a supervisor's grace period, a
\* crash.  Nothing of the process is left but the rows it has committed.
wk_killed ==
    /\ wk_proc \in {"starting", "running"}
    /\ wk_proc' = "down"
    /\ wk_pc' = "idle"
    /\ wk_cur' = 0
    /\ wk_outcome' = NoOutcome
    /\ UNCHANGED wk_rows

workerOther == <<alertVars, schedVars, collVars, cycleVars, chainVars, cleanVars,
                 tenantVars, pollVars, submitVars, probeVars, snapVars>>

WkStart == wk_start /\ UNCHANGED workerOther
WkRunForever == wk_run_forever /\ UNCHANGED workerOther
WkCreateExecution == wk_create_execution /\ UNCHANGED workerOther
WkExecute == (\E h \in HandlerOutcomes : wk_execute(h)) /\ UNCHANGED workerOther
WkCompleteExecution ==
    /\ \E w1, u, w2, u2 \in BOOLEAN : wk_complete_execution(w1, u, w2, u2)
    /\ UNCHANGED workerOther
WkStop == wk_stop /\ UNCHANGED workerOther
WkKilled == wk_killed /\ UNCHANGED workerOther

\* the steps the worker takes by itself
WorkerStep ==
    \/ WkStart
    \/ WkRunForever
    \/ WkCreateExecution
    \/ WkExecute
    \/ WkCompleteExecution

WorkerNext ==
    \/ WorkerStep
    \/ WkStop
    \/ WkKilled

\* a stopped worker is started again, a started worker goes on, a handler
\* ends (the executor gives it up at its timeout)
SpecWorker == Init /\ [][WorkerNext]_vars /\ WF_vars(WorkerStep)

(***************************************************************************)
(*                     WORKER LIFE CYCLE: properties                       *)
(***************************************************************************)

\* C25: every JobExecution the worker creates reaches success or failed in
\* the end, also when the worker is stopped or restarted while the handler
\* runs or before the result is written: no row stays running for ever.
C25_EveryExecutionEnds ==
    \A i \in 1..MaxWkRows :
        (i \in DOMAIN wk_rows /\ wk_rows[i] = "running")
            ~> (i \in DOMAIN wk_rows /\ wk_rows[i] \in {"success", "failed"})

(***************************************************************************)
(*   UNIT SUBMISSION: MetricCollector.collect_tenant and the services      *)
(*   that change what it reads (server_service, collection_config_service) *)
(***************************************************************************)

\* the test passes only after more than interval_seconds
ElapsedMoreThan(last, t, interval) == last = None \/ t - last > interval

\* "if config.last_collected_at: elapsed = now - last_collected_at;
\*  if elapsed < config.interval_seconds: continue"
interval_elapsed(last, t, interval) == last = None \/ t - last >= interval

\* the joined query: Server.is_deleted == False, CollectionConfig.enabled == True
servers_with_config(rows) ==
    SelectSeq(SubmitOrder, LAMBDA s : ~rows[s].is_deleted /\ rows[s].enabled)

\* the first loop of collect_tenant over the first n rows of the query (the
\* loop is left when self.running is false): the servers it submits
submitted_units(rows, t, n) ==
    SelectSeq(SubSeq(servers_with_config(rows), 1, n),
              LAMBDA s : interval_elapsed(rows[s].last_collected_at, t,
                                          rows[s].interval_seconds))

\* ServerService.delete: a soft delete
sb_delete(s) ==
    /\ sb_pc = "idle" /\ ~sb_rows[s].is_deleted
    /\ sb_rows' = [sb_rows EXCEPT ![s].is_deleted = TRUE]
    /\ UNCHANGED <<sb_now, sb_pc, sb_running, sb_submitted, sb_pending, sb_broken>>

\* CollectionConfigService.update_config / start_collection / stop_collection
sb_update_config(s, enabled, interval) ==
    /\ sb_pc = "idle" /\ ~sb_rows[s].is_deleted
    /\ sb_rows' = [sb_rows EXCEPT ![s].enabled = enabled,
                                  ![s].interval_seconds = interval]
    /\ sb_rows' # sb_rows
    /\ UNCHANGED <<sb_now, sb_pc, sb_running, sb_submitted, sb_pending, sb_broken>>

\* run: the wait between two cycles
sb_sleep ==
    /\ sb_pc = "idle"
    /\ sb_now + MAIN_LOOP_INTERVAL <= MaxSubmitTime
    /\ sb_now' = sb_now + MAIN_LOOP_INTERVAL
    /\ UNCHANGED <<sb_rows, sb_pc, sb_running, sb_submitted, sb_pending, sb_broken>>

\* the collector process is started (again)
sb_setup ==
    /\ sb_pc = "idle" /\ ~sb_running
    /\ sb_running' = TRUE
    /\ UNCHANGED <<sb_now, sb_rows, sb_pc, sb_submitted, sb_pending, sb_broken>>

\* collect_tenant up to the end of its first loop.  query_ok: get_session and
\* the query return; n: the rows the loop handles before shutdown() sets
\* self.running to false (all of them when no signal arrives)
sb_collect_tenant(query_ok, n) ==
    /\ sb_pc = "idle" /\ sb_running
    /\ n \in 0..Len(servers_with_config(sb_rows))
    /\ LET units == IF query_ok THEN submitted_units(sb_rows, sb_now, n) ELSE << >>
       IN  /\ sb_submitted' = units
           /\ sb_pending' = SeqRange(units)
    /\ sb_broken' = (~query_ok \/ n < Len(servers_with_config(sb_rows)))
    /\ sb_running' = (~query_ok \/ n = Len(servers_with_config(sb_rows)))
    /\ sb_pc' = "wait"
    /\ UNCHANGED <<sb_now, sb_rows>>

\* a submitted unit ends; ok: collect_server commits last_collected_at
sb_collect_server(s, ok) ==
    /\ sb_pc = "wait" /\ s \in sb_pending
    /\ sb_pending' = sb_pending \ {s}
    /\ sb_rows' = IF ok THEN [sb_rows EXCEPT ![s].last_collected_at = sb_now]
                  ELSE sb_rows
    /\ UNCHANGED <<sb_now, sb_pc, sb_running, sb_submitted, sb_broken>>

\* collect_tenant returns after its second loop
sb_return ==
    /\ sb_pc = "wait" /\ sb_pending = {}
    /\ sb_pc' = "idle"
    /\ sb_submitted' = << >>
    /\ sb_broken' = FALSE
    /\ UNCHANGED <<sb_now, sb_rows, sb_running, sb_pending>>

submitOther == <<alertVars, schedVars, collVars, cycleVars, chainVars, cleanVars,
                 tenantVars, pollVars, workerVars, probeVars, snapVars>>

SbDelete == (\E s \in SubmitServers : sb_delete(s)) /\ UNCHANGED submitOther
SbUpdateConfig ==
    /\ \E s \in SubmitServers, e \in BOOLEAN, i \in IntervalInputs :
          sb_update_config(s, e, i)
    /\ UNCHANGED submitOther
SbSleep == sb_sleep /\ UNCHANGED submitOther
SbSetup == sb_setup /\ UNCHANGED submitOther
SbCollectTenant ==
    /\ \E query_ok \in BOOLEAN, n \in 0..Len(SubmitOrder) : sb_collect_tenant(query_ok, n)
    /\ UNCHANGED submitOther
SbCollectServer ==
    /\ \E s \in SubmitServers, ok \in BOOLEAN : sb_collect_server(s, ok)
    /\ UNCHANGED submitOther
SbReturn == sb_return /\ UNCHANGED submitOther

SubmitNext ==
    \/ SbDelete
    \/ SbUpdateConfig
    \/ SbSleep
    \/ SbSetup
    \/ SbCollectTenant
    \/ SbCollectServer
    \/ SbReturn

SpecSubmit == Init /\ [][SubmitNext]_vars

(***************************************************************************)
(*                      UNIT SUBMISSION: properties                        *)
(***************************************************************************)

\* the first loop of collect_tenant has just ended: no unit has written yet
JustSubmitted == sb_pc = "wait" /\ sb_pending = SeqRange(sb_submitted)

\* the servers that pass the three tests of the claim
PassesTests(s) ==
    /\ ~sb_rows[s].is_deleted
    /\ sb_rows[s].enabled
    /\ \/ sb_rows[s].last_collected_at = None
       \/ sb_now - sb_rows[s].last_collected_at >= sb_rows[s].interval_seconds

\* C27: collect_tenant submits a unit for a server only when the server is
\* not deleted, its config is enabled and last_collected_at is unset or at
\* least interval_seconds old; when its query returns and no shutdown ends
\* the loop, every such server is submitted, once, and no other server is.
C27_SubmitsExactlyTheDue ==
    JustSubmitted =>
        /\ \A s \in SeqRange(sb_submitted) : PassesTests(s)
        /\ \A i, j \in DOMAIN sb_submitted : sb_submitted[i] = sb_submitted[j] => i = j
        /\ ~sb_broken => \A s \in SubmitServers : PassesTests(s) => s \in SeqRange(sb_submitted)

\* v1 is submitted exactly interval_seconds after its last collection, v2 is
\* enabled but was collected more recently and is left out
C27_Witness ==
    /\ JustSubmitted /\ ~sb_broken
    /\ sb_submitted = <<"v1">>
    /\ sb_rows["v1"].last_collected_at # None
    /\ sb_now - sb_rows["v1"].last_collected_at = sb_rows["v1"].interval_seconds
    /\ sb_rows["v2"].enabled /\ ~sb_rows["v2"].is_deleted
    /\ sb_rows["v2"].last_collected_at # None

(***************************************************************************)
(*   METRIC PROBES: _collect_metrics and the rest of collect_server        *)
(*   (workers/metric_collector.py)                                         *)
(***************************************************************************)

\* the dict before the first probe
EmptyMetrics == [p \in Probes |-> Absent]

\* the try block of probe p, given how its query ends
run_probe(metrics, p, outcome) ==
    CASE outcome = "value" -> [metrics EXCEPT ![p] = 50]
      [] outcome = "null"  -> IF p \in NullChecked THEN metrics
                              ELSE [metrics EXCEPT ![p] = None]
      [] OTHER -> metrics

\* a failed probe ends _collect_metrics
StopAfterExcept(rest) == << >>

\* "except Exception as e: logger.debug(...)": the probes that still run
\* after the except clause of a failed one
after_except(rest) == rest

\* _collect_metrics(cursor); st = [metrics, ran], ran: the probes whose
\* query was sent
RECURSIVE collect_metrics(_, _, _)
collect_metrics(probes, st, outcomes) ==
    IF probes = << >> THEN st
    ELSE LET p == Head(probes)
             st1 == [metrics |-> run_probe(st.metrics, p, outcomes[p]),
                     ran |-> Append(st.ran, p)]
         IN  collect_metrics(IF outcomes[p] = "raise"
                             THEN after_except(Tail(probes))
                             ELSE Tail(probes),
                             st1, outcomes)

\* dict.get(key): None for an absent key
metrics_get(metrics, p) == IF metrics[p] = Absent THEN None ELSE metrics[p]

\* ServerSnapshot(cpu_percent=metrics.get('cpu_percent'), ...)
ServerSnapshotOf(metrics) == [p \in Probes |-> metrics_get(metrics, p)]

\* collect_server from conn.cursor() on, for a server that was connected
\* (running-query collection off).  commit_ok: the store takes the commit of
\* _update_server_status, which also carries the pending snapshot
pr_collect_server(outcomes, close, commit_ok) ==
    /\ pr_pc = "idle"
    /\ pr_pc' = "done"
    /\ pr_outcomes' = outcomes
    /\ pr_close' = close
    /\ pr_commit_ok' = commit_ok
    /\ LET st == collect_metrics(ProbeOrder, [metrics |-> EmptyMetrics, ran |-> << >>],
                                 outcomes)
       IN  /\ pr_ran' = st.ran
           /\ pr_snapshot' = IF close # "raises_twice" /\ commit_ok
                             THEN ServerSnapshotOf(st.metrics)
                             ELSE NoSnapshot
           /\ pr_status' = CASE close = "ok" /\ commit_ok -> "online"
                             [] close = "raises_once" /\ commit_ok -> "error"
                             [] OTHER -> pr_status

\* the next cycle: the unit is submitted again
pr_next_cycle ==
    /\ pr_pc = "done"
    /\ pr_pc' = "idle"
    /\ pr_ran' = << >>
    /\ pr_snapshot' = NoSnapshot
    /\ pr_outcomes' = [p \in Probes |-> "value"]
    /\ pr_close' = "ok"
    /\ pr_commit_ok' = TRUE
    /\ UNCHANGED pr_status

probeOther == <<alertVars, schedVars, collVars, cycleVars, chainVars, cleanVars,
                tenantVars, pollVars, workerVars, submitVars, snapVars>>

PrCollectServer ==
    /\ pr_pc = "idle"
    /\ \E outcomes \in [Probes -> ProbeOutcomes], close \in CloseOutcomes,
          commit_ok \in BOOLEAN : pr_collect_server(outcomes, close, commit_ok)
    /\ UNCHANGED probeOther
PrNextCycle == pr_next_cycle /\ UNCHANGED probeOther

ProbeNext ==
    \/ PrCollectServer
    \/ PrNextCycle

SpecProbes == Init /\ [][ProbeNext]_vars

(***************************************************************************)
(*                       METRIC PROBES: properties                         *)
(***************************************************************************)

\* the unit has ended, conn.close() returned and the store took the commit
UnitWritten == pr_pc = "done" /\ pr_close = "ok" /\ pr_commit_ok

FailedProbes == {p \in Probes : pr_outcomes[p] = "raise"}

\* C29: whatever subset of the six probes raises, every probe is still run,
\* the snapshot is stored with the failed probes' fields empty and the other
\* fields as fetched, and the server ends the unit with status online.
C29_ProbesAreBestEffort ==
    UnitWritten =>
        /\ pr_ran = ProbeOrder
        /\ pr_snapshot # NoSnapshot
        /\ \A p \in FailedProbes : pr_snapshot[p] = None
        /\ \A p \in Probes : pr_outcomes[p] = "value" => pr_snapshot[p] = 50
        /\ pr_status = "online"

\* the first, third and last probes raise, the other three fetch a number
C29_Witness ==
    /\ UnitWritten
    /\ FailedProbes = {"cpu_percent", "connection_count", "blocked_processes"}
    /\ \A p \in Probes \ FailedProbes : pr_outcomes[p] = "value" /\ pr_snapshot[p] = 50
    /\ \A p \in FailedProbes : pr_snapshot[p] = None
    /\ pr_ran = ProbeOrder
    /\ pr_status = "online"

(***************************************************************************)
(*   EVALUATION ON STORED SNAPSHOTS: the collector's snapshots and         *)
(*   run_alert_evaluation reading them (app/services/alert_evaluator.py)   *)
(***************************************************************************)

\* collect_server stores a ServerSnapshot of the server
ev_store_snapshot(s, m) ==
    /\ ev_latest' = [ev_latest EXCEPT ![s] = m]
    /\ ev_has' = ev_has \cup {s}
    /\ ev_failed' = [ev_failed EXCEPT ![s] = FALSE]
    /\ ev_seen' = ev_seen \ {s}
    /\ UNCHANGED <<ev_tick, alertVars>>

\* collect_server fails before the snapshot (decrypt, connect, cursor): the
\* server gets no new snapshot
ev_collection_fails(s) ==
    /\ ~ev_failed[s]
    /\ ev_failed' = [ev_failed EXCEPT ![s] = TRUE]
    /\ UNCHANGED <<ev_latest, ev_has, ev_seen, ev_tick, alertVars>>

\* run_alert_evaluation(session): evaluate_all_servers takes, for each server,
\* the snapshot with the greatest collected_at, whatever its age
ev_run_alert_evaluation ==
    /\ run_alert_evaluation(ev_has, ev_latest)
    /\ ev_tick' = ~ev_tick
    /\ ev_seen' = ev_has
    /\ UNCHANGED <<ev_latest, ev_has, ev_failed>>

snapOther == <<schedVars, collVars, cycleVars, chainVars, cleanVars,
               tenantVars, pollVars, workerVars, submitVars, probeVars>>

EvStoreSnapshot ==
    /\ \E s \in ServerIds, m \in SnapshotInputs : ev_store_snapshot(s, m)
    /\ UNCHANGED snapOther
EvCollectionFails == (\E s \in ServerIds : ev_collection_fails(s)) /\ UNCHANGED snapOther
EvRunAlertEvaluation == ev_run_alert_evaluation /\ UNCHANGED snapOther

SnapshotCycleNext ==
    \/ EvStoreSnapshot
    \/ EvCollectionFails
    \/ EvRunAlertEvaluation
    \/ ResolveAlert
    \/ UpdateRule

SpecSnapshotCycle == Init /\ [][SnapshotCycleNext]_vars

(***************************************************************************)
(*              EVALUATION ON STORED SNAPSHOTS: properties                 *)
(***************************************************************************)

\* the metrics handed to evaluate_server for s hold no value for r's metric
\* (or evaluate_server is not called for s at all)
NoValue(r, s) == s \notin ev_has \/ ev_latest[s][AlertRule(r).metric_type] = None

\* the step creates no Alert of the pair, changes none of its Alerts and
\* leaves its hysteresis counter as it was
PairUnchanged(r, s) ==
    /\ \A i \in DOMAIN alerts' :
          PairOf(alerts'[i]) = <<r, s>> => i \in DOMAIN alerts /\ alerts'[i] = alerts[i]
    /\ resolved_count'[<<r, s>>] = resolved_count[<<r, s>>]

\* an evaluation changes nothing for a pair whose rule is disabled or whose
\* metric has no value in the metrics supplied
EvaluationFrame ==
    [][ev_tick' # ev_tick =>
          \A r \in RuleIds, s \in ServerIds :
              (~rule_enabled[r] \/ NoValue(r, s)) => PairUnchanged(r, s)
      ]_vars

\* the collection of s failed and brought the evaluation nothing new: the
\* latest snapshot of s, if any, was already evaluated in an earlier cycle
CollectionFailed(s) == ev_failed[s] /\ (s \in ev_has => s \in ev_seen)

\* C30: an evaluation changes nothing for a (rule, server) pair whose rule is
\* disabled or whose metric is absent from the supplied metrics: no Alert is
\* created, none is resolved and the pair's hysteresis counter is unchanged;
\* so an evaluation cycle of a server whose collection failed raises no
\* alert of that server and resolves none.
C30_NoValueNoChange ==
    [][ev_tick' # ev_tick =>
          \A r \in RuleIds, s \in ServerIds :
              (~rule_enabled[r] \/ NoValue(r, s) \/ CollectionFailed(s))
                  => PairUnchanged(r, s)
      ]_vars

=============================================================================
